---- MODULE Spec2Model ----
(***************************************************************************)
(* Verification model of the Anki statistics dashboard:                    *)
(*   - the StateManager of state.js (persisted blob, deepMerge, listeners) *)
(*   - the StateManager inlined in main.js (the one the page loads)        *)
(*   - the DataParser activity index and the AnkiStatsApp load cycle       *)
(***************************************************************************)
EXTENDS Integers, Sequences, FiniteSets, TLC

VARIABLES
  state,        \* state.js  StateManager.state (fields of the state object)
  listeners,    \* state.js  StateManager.listeners: eventType -> callbacks in insertion order
  inlineState,  \* main.js   StateManager.state
  subscribers,  \* main.js   StateManager.subscribers: event -> callbacks in push order
  storage,      \* window.localStorage: key -> item
  storageFull,  \* TRUE iff localStorage.setItem throws (quota exceeded, storage disabled)
  log,          \* effects of the operation in progress / last run, in program order
  threw,        \* TRUE iff the last operation ended by throwing to its caller
  lastOp,       \* the last operation run and its argument
  ops,          \* number of store calls (or app runs and year changes) made so far
  appPhase,     \* AnkiStatsApp: where init() / refresh() stands
  run,          \* AnkiStatsApp: the run begun last, "init" or "refresh"; "none" before init()
  attempt,      \* index of the candidate path the pending fetch uses
  isLoading,    \* AnkiStatsApp.isLoading
  errorShown,   \* TRUE iff the last run ended in showError
  csvText,      \* the CSV text loadData read, undefined until a fetch delivers one
  activityData, \* AnkiStatsApp.activityData
  historyData,  \* DataParser.historyData
  heatmapData,  \* what createActivityHeatmap last got from getHeatmapData
  heatmapYear,  \* the year of that call, 0 before the first call
  rawDaily,     \* the raw daily mapping loadData last normalized, undefined if none
  cardsData,    \* AnkiStatsApp.cardsData
  chartsCards,  \* ChartsManager.cardsData, null until initializeCharts ran
  tableCards,   \* the records the card table was last built from, null if never
  activeCards,  \* the stat cards that carry the class 'active'
  input,        \* argument of the pure function under study
  output,       \* its result, undefined before it is applied
  frames        \* calls of notifyListeners in progress, innermost first: what each
                \* has still to deliver

storeVars == <<state, listeners, inlineState, subscribers, storage, storageFull, log,
               threw, lastOp, ops>>

appVars == <<appPhase, run, attempt, isLoading, errorShown, csvText, activityData,
             historyData, heatmapData, heatmapYear, rawDaily, cardsData, chartsCards,
             tableCards, activeCards>>

fnVars == <<input, output, frames>>

vars == <<storeVars, appVars, fnVars>>

----------------------------------------------------------------------------
(* Bounds *)

\* calls made on a store after its construction
MaxOps == 2

----------------------------------------------------------------------------
(* JavaScript values.  Every value is a tagged record so that values of    *)
(* different kinds can be compared.                                        *)

JNull == [t |-> "null"]
JUndef == [t |-> "undefined"]
JStr(s) == [t |-> "str", v |-> s]
JNum(n) == [t |-> "num", v |-> n]
JBool(b) == [t |-> "bool", v |-> b]
JArr(s) == [t |-> "arr", v |-> s]
JObj(f) == [t |-> "obj", v |-> f]

EmptyFields == [k \in {} |-> JNull]

\* the fields k1 |-> v1, ... of an object literal
Fields(pairs) == [k \in {p[1] : p \in pairs} |-> (CHOOSE p \in pairs : p[1] = k)[2]]

\* { ...a, ...b }
SpreadMerge(a, b) ==
  [k \in DOMAIN a \cup DOMAIN b |-> IF k \in DOMAIN b THEN b[k] ELSE a[k]]

\* JavaScript truthiness
Truthy(x) ==
  CASE x.t = "null" -> FALSE
    [] x.t = "undefined" -> FALSE
    [] x.t = "str" -> x.v # ""
    [] x.t = "num" -> x.v # 0
    [] x.t = "bool" -> x.v
    [] x.t = "chars" -> x.v # <<>>
    [] x.t = "nan" -> FALSE
    [] OTHER -> TRUE

\* obj[k], undefined when the key is missing
Get(f, k) == IF k \in DOMAIN f THEN f[k] ELSE JUndef

----------------------------------------------------------------------------
(* Objects and arrays seen through property access: the own enumerable     *)
(* keys of x as used by {...x}, for (key in x) and x[key].  The characters *)
(* of a string are not modelled: a string has no fields here.              *)

ArrFields(seq) ==
  [k \in {ToString(i - 1) : i \in 1..Len(seq)} |->
     seq[CHOOSE i \in 1..Len(seq) : ToString(i - 1) = k]]

ObjView(x) ==
  CASE x.t = "obj" -> x.v
    [] x.t = "arr" -> ArrFields(x.v)
    [] OTHER -> EmptyFields

\* StateManager.deepMerge(target, source)
RECURSIVE deepMerge(_, _)
deepMerge(target, source) ==
  LET tf == ObjView(target)
      sf == ObjView(source)
  IN JObj([key \in DOMAIN tf \cup DOMAIN sf |->
        IF key \in DOMAIN sf
        THEN IF Truthy(sf[key]) /\ sf[key].t = "obj"
             THEN deepMerge(IF Truthy(Get(tf, key)) THEN tf[key] ELSE JObj(EmptyFields),
                            sf[key])
             ELSE sf[key]
        ELSE tf[key]])

\* JSON.stringify(x), as the JSON tree the text denotes: a property whose
\* value is undefined is left out, an undefined array element becomes null
RECURSIVE Stringify(_)
Stringify(x) ==
  CASE x.t = "obj" ->
         JObj([k \in {k \in DOMAIN x.v : x.v[k].t # "undefined"} |-> Stringify(x.v[k])])
    [] x.t = "arr" ->
         JArr([i \in 1..Len(x.v) |->
                IF x.v[i].t = "undefined" THEN JNull ELSE Stringify(x.v[i])])
    [] OTHER -> x

\* localStorage items: no item, a text that is not JSON, a JSON text
Absent == [t |-> "absent"]
Raw(s) == [t |-> "raw", v |-> s]
Json(tree) == [t |-> "json", v |-> tree]

\* the string localStorage.getItem returns is truthy
ItemTruthy(item) ==
  CASE item.t = "absent" -> FALSE
    [] item.t = "raw" -> item.v # ""
    [] OTHER -> TRUE

\* JSON.parse(text) throws on a text that is not JSON
ParseThrows(item) == item.t = "raw"
Parse(item) == item.v

----------------------------------------------------------------------------
(* state.js *)

storageKey == "anki-stats-state"

\* new Date().getFullYear() when the module is evaluated
CurrentYear == JNum(2025)

defaultState ==
  JObj(Fields({
    <<"theme", JStr("dark")>>,
    <<"language", JStr("en")>>,
    <<"filters", JObj(Fields({
        <<"selectedDecks", JArr(<<>>)>>,
        <<"selectedLevels", JArr(<<>>)>>,
        <<"searchQuery", JStr("")>>,
        <<"dateRange", JObj(Fields({<<"start", JNull>>, <<"end", JNull>>}))>>}))>>,
    <<"chartStates", JObj(Fields({
        <<"timelineZoom", JStr("month")>>,
        <<"timelineMetrics", JArr(<<JStr("reviews"), JStr("newCards"), JStr("matured")>>)>>,
        <<"heatmapYear", CurrentYear>>,
        <<"pieChartExpanded", JBool(FALSE)>>,
        <<"deckChartSortBy", JStr("name")>>,
        <<"deckChartSortOrder", JStr("asc")>>}))>>,
    <<"tableStates", JObj(Fields({
        <<"sortColumn", JStr("lastReview")>>,
        <<"sortOrder", JStr("desc")>>,
        <<"pageSize", JNum(50)>>,
        <<"currentPage", JNum(1)>>}))>>,
    <<"uiStates", JObj(Fields({
        <<"sidebarCollapsed", JBool(FALSE)>>,
        <<"lastDataUpdate", JNull>>,
        <<"selectedCard", JNull>>}))>>}))

\* loadState without its try/catch: a failing read or parse reaches the caller
loadStateNoCatch(store, readFails) ==
  IF readFails THEN [threw |-> TRUE, value |-> JUndef]
  ELSE LET savedState == store[storageKey] IN
       IF ~ItemTruthy(savedState) THEN [threw |-> FALSE, value |-> defaultState]
       ELSE IF ParseThrows(savedState) THEN [threw |-> TRUE, value |-> JUndef]
       ELSE [threw |-> FALSE, value |-> deepMerge(defaultState, Parse(savedState))]

\* StateManager.loadState(): what the constructor's call returns or throws;
\* readFails: localStorage.getItem throws.  The try block covers getItem,
\* JSON.parse and deepMerge; the catch logs and falls through to the default.
loadState(store, readFails) ==
  IF readFails THEN [threw |-> FALSE, value |-> defaultState]
  ELSE LET savedState == store[storageKey] IN
       IF ~ItemTruthy(savedState) THEN [threw |-> FALSE, value |-> defaultState]
       ELSE IF ParseThrows(savedState) THEN [threw |-> FALSE, value |-> defaultState]
       ELSE [threw |-> FALSE, value |-> deepMerge(defaultState, Parse(savedState))]

\* path 'a.b' of getState(path), given as the sequence of its segments
RECURSIVE getPath(_, _)
getPath(x, path) ==
  IF path = <<>> THEN x
  ELSE IF x.t \in {"null", "undefined"} THEN JUndef
  ELSE getPath(Get(ObjView(x), Head(path)), Tail(path))

getState(path) == getPath(state, path)

----------------------------------------------------------------------------
(* Event types, callbacks and the effect log *)

EventTypes == {"stateChange", "filterChange", "chartStateChange", "tableStateChange",
               "uiStateChange", "themeChange", "languageChange", "stateReset"}

\* cb1 returns normally, cbThrows throws whenever it is called
Callbacks == {"cb1", "cbThrows"}
\* the event types the model registers callbacks for
SubscribedTypes == {"stateChange", "filterChange"}
ThrowingCallbacks == {"cbThrows"}

NoListeners == [e \in EventTypes |-> <<>>]

SeqToSet(seq) == {seq[i] : i \in 1..Len(seq)}

RemoveFrom(seq, x) == SelectSeq(seq, LAMBDA y : y # x)

\* one log entry per localStorage.setItem call
WriteEntry(key, item, ok) == [op |-> "setItem", key |-> key, item |-> item, ok |-> ok]

\* one log entry per callback invocation: the list it was registered in, the
\* argument it received and whether it threw
CallEntry(cb, registeredFor, data, cbThrew) ==
  [op |-> "callback", cb |-> cb, registeredFor |-> registeredFor, data |-> data,
   cbThrew |-> cbThrew]

\* the argument object of a callback; a missing property is undefined
EventData(newState, previousState, updates, eventType) ==
  [newState |-> newState, previousState |-> previousState, updates |-> updates,
   eventType |-> eventType]

\* StateManager.saveState(): the storage after the call
saveState(store, value, writeFails) ==
  IF writeFails THEN store
  ELSE [store EXCEPT ![storageKey] = Json(Stringify(value))]

\* StateManager.notifyListeners(eventType, eventData): the callbacks run, in
\* order; each call sits in its own try/catch
notifyListeners(eventType, eventData) ==
  [i \in 1..Len(listeners[eventType]) |->
     CallEntry(listeners[eventType][i], eventType, eventData,
               listeners[eventType][i] \in ThrowingCallbacks)]
  \o (IF eventType # "stateChange"
      THEN [i \in 1..Len(listeners["stateChange"]) |->
              CallEntry(listeners["stateChange"][i], "stateChange",
                        [eventData EXCEPT !.eventType = JStr(eventType)],
                        listeners["stateChange"][i] \in ThrowingCallbacks)]
      ELSE <<>>)

\* StateManager.setState(updates, eventType); no middleware is ever added, so
\* applyMiddleware returns the updates as they are
setState(updates, eventType, writeFails) ==
  LET newState == deepMerge(state, updates) IN
  /\ IF Stringify(newState) # Stringify(state)
     THEN /\ state' = newState
          /\ storage' = saveState(storage, newState, writeFails)
          /\ log' = <<WriteEntry(storageKey, Json(Stringify(newState)), ~writeFails)>>
                    \o notifyListeners(eventType,
                                       EventData(newState, state, updates, JUndef))
     ELSE /\ UNCHANGED <<state, storage>>
          /\ log' = <<>>
  /\ threw' = FALSE

\* convenience wrappers of state.js
updateFilters(filterUpdates, writeFails) ==
  setState(JObj(Fields({<<"filters",
             JObj(SpreadMerge(ObjView(getState(<<"filters">>)), filterUpdates))>>})),
           "filterChange", writeFails)

updateChartState(chartUpdates, writeFails) ==
  setState(JObj(Fields({<<"chartStates",
             JObj(SpreadMerge(ObjView(getState(<<"chartStates">>)), chartUpdates))>>})),
           "chartStateChange", writeFails)

updateTableState(tableUpdates, writeFails) ==
  setState(JObj(Fields({<<"tableStates",
             JObj(SpreadMerge(ObjView(getState(<<"tableStates">>)), tableUpdates))>>})),
           "tableStateChange", writeFails)

updateUIState(uiUpdates, writeFails) ==
  setState(JObj(Fields({<<"uiStates",
             JObj(SpreadMerge(ObjView(getState(<<"uiStates">>)), uiUpdates))>>})),
           "uiStateChange", writeFails)

setTheme(theme, writeFails) ==
  setState(JObj(Fields({<<"theme", theme>>})), "themeChange", writeFails)

setLanguage(language, writeFails) ==
  setState(JObj(Fields({<<"language", language>>})), "languageChange", writeFails)

toggleTheme(writeFails) ==
  setTheme(IF getState(<<"theme">>) = JStr("dark") THEN JStr("light") ELSE JStr("dark"),
           writeFails)

\* a toggle that pushes whether or not x is there
ToggleInAlwaysPushes(seq, x) == Append(seq, x)

\* the array after toggling x: pushed when absent, the first occurrence
\* spliced out when present
ToggleIn(seq, x) ==
  IF x \notin SeqToSet(seq) THEN Append(seq, x)
  ELSE LET index == CHOOSE i \in 1..Len(seq) :
                      seq[i] = x /\ \A j \in 1..(i - 1) : seq[j] # x
       IN SubSeq(seq, 1, index - 1) \o SubSeq(seq, index + 1, Len(seq))

toggleDeckFilter(deckName, writeFails) ==
  updateFilters(Fields({<<"selectedDecks",
      JArr(ToggleIn(getState(<<"filters", "selectedDecks">>).v, deckName))>>}),
    writeFails)

toggleLevelFilter(level, writeFails) ==
  updateFilters(Fields({<<"selectedLevels",
      JArr(ToggleIn(getState(<<"filters", "selectedLevels">>).v, level))>>}),
    writeFails)

clearFilters(writeFails) ==
  updateFilters(Fields({
      <<"selectedDecks", JArr(<<>>)>>,
      <<"selectedLevels", JArr(<<>>)>>,
      <<"searchQuery", JStr("")>>,
      <<"dateRange", JObj(Fields({<<"start", JNull>>, <<"end", JNull>>}))>>}),
    writeFails)

\* StateManager.resetState(preserveUserPrefs)
resetState(preserveUserPrefs, writeFails) ==
  LET newState == IF preserveUserPrefs
                  THEN JObj([defaultState.v EXCEPT !["theme"] = getState(<<"theme">>),
                                                   !["language"] = getState(<<"language">>)])
                  ELSE defaultState
  IN /\ state' = newState
     /\ storage' = saveState(storage, newState, writeFails)
     /\ log' = <<WriteEntry(storageKey, Json(Stringify(newState)), ~writeFails)>>
               \o notifyListeners("stateReset",
                                  EventData(newState, JUndef, JUndef, JUndef))
     /\ threw' = FALSE

\* StateManager.subscribe / unsubscribe: a Set keeps one copy, in insertion order
subscribe(eventType, callback) ==
  listeners' = [listeners EXCEPT ![eventType] =
                  IF callback \in SeqToSet(@) THEN @ ELSE Append(@, callback)]

unsubscribe(eventType, callback) ==
  listeners' = [listeners EXCEPT ![eventType] = RemoveFrom(@, callback)]

----------------------------------------------------------------------------
(* main.js: the StateManager the page installs as window.StateManager *)

themeKey == "ankiStats_theme"
legacyThemeKey == "anki-stats-theme"
languageKey == "ankiStats_language"
legacyLanguageKey == "anki-stats-language"

StorageKeys == {storageKey, themeKey, legacyThemeKey, languageKey, legacyLanguageKey}

\* the text of an item as getItem returns it, null when there is none; only
\* plain texts are ever stored under the theme and language keys
ItemText(item) == IF item.t = "raw" THEN JStr(item.v) ELSE JNull

\* a || b
Or(a, b) == IF Truthy(a) THEN a ELSE b

\* constructor(): reads the saved theme and language, everything else starts
\* from the literal; getItem is not guarded, so a failing read throws
inlineInitialState(store) ==
  LET savedTheme == Or(ItemText(store[themeKey]),
                       Or(ItemText(store[legacyThemeKey]), JStr("dark")))
      savedLanguage == Or(ItemText(store[languageKey]),
                          Or(ItemText(store[legacyLanguageKey]), JStr("en")))
  IN JObj(Fields({
    <<"theme", IF savedTheme \in {JStr("dark"), JStr("light")} THEN savedTheme
               ELSE JStr("dark")>>,
    <<"language", IF savedLanguage \in {JStr("en"), JStr("ru")} THEN savedLanguage
                  ELSE JStr("en")>>,
    <<"filters", JObj(Fields({
        <<"selectedDecks", JArr(<<>>)>>,
        <<"selectedLevels", JArr(<<>>)>>,
        <<"searchQuery", JStr("")>>,
        <<"dateRange", JObj(Fields({<<"start", JNull>>, <<"end", JNull>>}))>>}))>>,
    <<"chartStates", JObj(Fields({
        <<"timelineZoom", JStr("month")>>,
        <<"timelineMetrics", JArr(<<JStr("reviews"), JStr("newCards"), JStr("matured")>>)>>,
        <<"heatmapYear", CurrentYear>>,
        <<"pieChartExpanded", JBool(FALSE)>>,
        <<"deckChartSortBy", JStr("name")>>,
        <<"deckChartSortOrder", JStr("asc")>>}))>>,
    <<"tableStates", JObj(Fields({
        <<"sortColumn", JStr("lastReview")>>,
        <<"sortOrder", JStr("desc")>>,
        <<"pageSize", JNum(50)>>,
        <<"currentPage", JNum(1)>>}))>>,
    <<"uiStates", JObj(Fields({
        <<"sidebarCollapsed", JBool(FALSE)>>,
        <<"activeTab", JStr("overview")>>,
        <<"lastDataUpdate", JNull>>}))>>}))

inlineGetState(path) == getPath(inlineState, path)

\* notifySubscribers(event) on the state st: each callback gets an object
\* holding newState only, cut down to the part the event is about
notifySubscribers(event, st) ==
  LET arg == CASE event = "themeChange" ->
                    JObj(Fields({<<"theme", getPath(st, <<"theme">>)>>}))
               [] event = "languageChange" ->
                    JObj(Fields({<<"language", getPath(st, <<"language">>)>>}))
               [] event = "filterChange" ->
                    JObj(Fields({<<"filters", getPath(st, <<"filters">>)>>}))
               [] OTHER -> st
  IN [i \in 1..Len(subscribers[event]) |->
        CallEntry(subscribers[event][i], event, EventData(arg, JUndef, JUndef, JUndef),
                  subscribers[event][i] \in ThrowingCallbacks)]

\* st with the top-level field k replaced
WithField(st, k, val) == JObj(SpreadMerge(st.v, Fields({<<k, val>>})))

inlineUpdateFilters(filters) ==
  LET st == WithField(inlineState, "filters",
              JObj(SpreadMerge(ObjView(inlineGetState(<<"filters">>)), filters)))
  IN /\ inlineState' = st
     /\ log' = notifySubscribers("filterChange", st)
     /\ threw' = FALSE
     /\ UNCHANGED storage

inlineUpdateChartState(chartState) ==
  LET st == WithField(inlineState, "chartStates",
              JObj(SpreadMerge(ObjView(inlineGetState(<<"chartStates">>)), chartState)))
  IN /\ inlineState' = st
     /\ log' = notifySubscribers("chartStateChange", st)
     /\ threw' = FALSE
     /\ UNCHANGED storage

inlineUpdateUIState(uiState) ==
  /\ inlineState' = WithField(inlineState, "uiStates",
       JObj(SpreadMerge(ObjView(inlineGetState(<<"uiStates">>)), uiState)))
  /\ log' = <<>>
  /\ threw' = FALSE
  /\ UNCHANGED storage

\* the toggles splice or push on the state's own array, then go through
\* updateFilters
inlineToggleLevelFilter(level) ==
  inlineUpdateFilters(Fields({<<"selectedLevels",
      JArr(ToggleIn(Or(inlineGetState(<<"filters", "selectedLevels">>), JArr(<<>>)).v,
                    level))>>}))

inlineToggleDeckFilter(deck) ==
  inlineUpdateFilters(Fields({<<"selectedDecks",
      JArr(ToggleIn(Or(inlineGetState(<<"filters", "selectedDecks">>), JArr(<<>>)).v,
                    deck))>>}))

\* toggleTheme(): assign, notify, then setItem outside any try
inlineToggleTheme(writeFails) ==
  LET theme == IF inlineGetState(<<"theme">>) = JStr("dark") THEN JStr("light")
               ELSE JStr("dark")
      st == WithField(inlineState, "theme", theme)
  IN /\ inlineState' = st
     /\ log' = notifySubscribers("themeChange", st)
               \o <<WriteEntry(themeKey, Raw(theme.v), ~writeFails)>>
     /\ storage' = IF writeFails THEN storage
                   ELSE [storage EXCEPT ![themeKey] = Raw(theme.v)]
     /\ threw' = writeFails

\* setLanguage(language): silently ignores anything but 'en' and 'ru'
inlineSetLanguage(language, writeFails) ==
  IF language \in {JStr("en"), JStr("ru")}
  THEN LET st == WithField(inlineState, "language", language)
       IN /\ inlineState' = st
          /\ log' = notifySubscribers("languageChange", st)
                    \o <<WriteEntry(languageKey, Raw(language.v), ~writeFails)>>
          /\ storage' = IF writeFails THEN storage
                        ELSE [storage EXCEPT ![languageKey] = Raw(language.v)]
          /\ threw' = writeFails
  ELSE /\ UNCHANGED <<inlineState, storage>>
       /\ log' = <<>>
       /\ threw' = FALSE

\* subscribe(event, callback): a plain push, nothing is returned
inlineSubscribe(event, callback) ==
  subscribers' = [subscribers EXCEPT ![event] = Append(@, callback)]

\* the class has no clearFilters, setState, resetState or updateTableState:
\* calling one of them throws a TypeError before anything changes
inlineMissingMethod ==
  /\ UNCHANGED <<inlineState, storage>>
  /\ log' = <<>>
  /\ threw' = TRUE

\* new StateManager() of main.js: what the constructor returns or throws;
\* readFails: localStorage.getItem throws
inlineConstruct(store, readFails) ==
  IF readFails THEN [threw |-> TRUE, value |-> JUndef]
  ELSE [threw |-> FALSE, value |-> inlineInitialState(store)]

----------------------------------------------------------------------------
(* Inputs the callers of the store supply *)

Decks == {JStr("A"), JStr("B")}
FilterDecks == {JStr("A")}
Levels == {JStr("Mature")}
StatFilterTypes == {"newWordsToday"}

StatFilter(type) == JObj(Fields({<<"type", JStr(type)>>, <<"active", JBool(TRUE)>>}))

\* app.js updateDeckFilter / updateLevelFilter / updateSearchFilter /
\* toggleStatFilter and charts.js handleHeatmapCellClick
FilterUpdateInputs ==
  {Fields({<<"selectedDecks", JArr(<<d>>)>>}) : d \in FilterDecks}
  \cup {Fields({<<"selectedLevels", JArr(<<l>>)>>}) : l \in Levels}
  \cup {Fields({<<"searchQuery", JStr(q)>>}) : q \in {"x"}}
  \cup {Fields({<<"dateRange",
          JObj(Fields({<<"start", JStr("2024-06-01")>>, <<"end", JStr("2024-06-01")>>}))>>})}
  \cup {Fields({<<"statFilter", JNull>>})}
  \cup {Fields({<<"statFilter", StatFilter(ty)>>}) : ty \in StatFilterTypes}

\* charts.js updateTimelineZoom / updateHeatmapYear
ChartUpdateInputs == {Fields({<<"heatmapYear", JNum(2024)>>})}

TableUpdateInputs == {Fields({<<"currentPage", JNum(2)>>})}

\* app.js init / refresh (lastDataUpdate) and selectCard (card.noteId, which
\* is undefined for a card parsed from an export without the note_id column)
UIUpdateInputs ==
  {Fields({<<"lastDataUpdate", JStr("2024-06-01T10:00:00.000Z")>>}),
   Fields({<<"selectedCard", JUndef>>})}

Languages == {JStr("en"), JStr("ru")}

\* what localStorage may hold under the state key when the page opens
InitialBlobs ==
  {Absent, Raw("{oops"),
   Json(JObj(Fields({<<"theme", JStr("light")>>,
                     <<"filters", JObj(Fields({<<"searchQuery", JStr("x")>>}))>>})))}

InitialThemeItems == {Absent, Raw("light"), Raw("blue")}
InitialLanguageItems == {Absent, Raw("ru")}

Op(name, arg) == [name |-> name, arg |-> arg]

\* new AnkiStatsApp(): nothing loaded, nothing rendered
AppConstructed ==
  /\ appPhase = "constructed"
  /\ run = "none"
  /\ attempt = 0
  /\ isLoading = FALSE
  /\ errorShown = FALSE
  /\ csvText = JUndef
  /\ activityData = JNull
  /\ historyData = JNull
  /\ heatmapData = <<>>
  /\ heatmapYear = 0
  /\ rawDaily = JUndef
  /\ cardsData = JNull
  /\ chartsCards = JNull
  /\ tableCards = JNull
  /\ activeCards = {}

\* no pure function is under study
FnIdle == input = JUndef /\ output = JUndef /\ frames = <<>>

----------------------------------------------------------------------------
(* Specification of the state.js StateManager *)

StoreInit ==
  \E blob \in InitialBlobs, readFails \in BOOLEAN :
    /\ storage = [k \in StorageKeys |-> IF k = storageKey THEN blob ELSE Absent]
    /\ state = loadState(storage, readFails).value
    /\ threw = loadState(storage, readFails).threw
    /\ listeners = NoListeners
    /\ log = <<>>
    /\ lastOp = Op("constructor", JBool(readFails))
    /\ storageFull \in BOOLEAN
    /\ ops = 0
    /\ inlineState = JUndef
    /\ subscribers = NoListeners
    /\ AppConstructed
    /\ FnIdle

\* bookkeeping of a mutation or a reload: they are counted, so that the
\* model stops after MaxOps of them
StoreStep(name, arg) ==
  /\ ops' = ops + 1
  /\ lastOp' = Op(name, arg)
  /\ UNCHANGED <<storageFull, inlineState, subscribers, appVars, fnVars>>

\* bookkeeping of a subscription change
StoreSubStep(name, arg) ==
  /\ ops' = ops + 1
  /\ lastOp' = Op(name, arg)
  /\ UNCHANGED <<storageFull, inlineState, subscribers, appVars, fnVars>>

\* a new page: the listeners are gone, the state is loaded again
Reload ==
  /\ ops < MaxOps
  /\ \E readFails \in BOOLEAN :
       /\ state' = loadState(storage, readFails).value
       /\ threw' = loadState(storage, readFails).threw
       /\ listeners' = NoListeners
       /\ log' = <<>>
       /\ UNCHANGED storage
       /\ StoreStep("constructor", JBool(readFails))

Subscribe ==
  /\ ops < MaxOps
  /\ \E e \in SubscribedTypes, cb \in Callbacks :
       /\ subscribe(e, cb)
       /\ log' = <<>>
       /\ threw' = FALSE
       /\ UNCHANGED <<state, storage>>
       /\ StoreSubStep("subscribe", JNull)

Unsubscribe ==
  /\ ops < MaxOps
  /\ \E e \in SubscribedTypes, cb \in Callbacks :
       /\ cb \in SeqToSet(listeners[e])
       /\ unsubscribe(e, cb)
       /\ log' = <<>>
       /\ threw' = FALSE
       /\ UNCHANGED <<state, storage>>
       /\ StoreSubStep("unsubscribe", JNull)

UpdateFilters ==
  /\ ops < MaxOps
  /\ \E f \in FilterUpdateInputs :
       /\ updateFilters(f, storageFull)
       /\ UNCHANGED listeners
       /\ StoreStep("updateFilters", JObj(f))

UpdateChartState ==
  /\ ops < MaxOps
  /\ \E c \in ChartUpdateInputs :
       /\ updateChartState(c, storageFull)
       /\ UNCHANGED listeners
       /\ StoreStep("updateChartState", JObj(c))

UpdateTableState ==
  /\ ops < MaxOps
  /\ \E u \in TableUpdateInputs :
       /\ updateTableState(u, storageFull)
       /\ UNCHANGED listeners
       /\ StoreStep("updateTableState", JObj(u))

UpdateUIState ==
  /\ ops < MaxOps
  /\ \E u \in UIUpdateInputs :
       /\ updateUIState(u, storageFull)
       /\ UNCHANGED listeners
       /\ StoreStep("updateUIState", JObj(u))

SetLanguage ==
  /\ ops < MaxOps
  /\ \E l \in Languages :
       /\ setLanguage(l, storageFull)
       /\ UNCHANGED listeners
       /\ StoreStep("setLanguage", l)

ToggleTheme ==
  /\ ops < MaxOps
  /\ toggleTheme(storageFull)
  /\ UNCHANGED listeners
  /\ StoreStep("toggleTheme", JNull)

ToggleDeckFilter ==
  /\ ops < MaxOps
  /\ \E d \in Decks :
       /\ toggleDeckFilter(d, storageFull)
       /\ UNCHANGED listeners
       /\ StoreStep("toggleDeckFilter", d)

ToggleLevelFilter ==
  /\ ops < MaxOps
  /\ \E l \in Levels :
       /\ toggleLevelFilter(l, storageFull)
       /\ UNCHANGED listeners
       /\ StoreStep("toggleLevelFilter", l)

ClearFilters ==
  /\ ops < MaxOps
  /\ clearFilters(storageFull)
  /\ UNCHANGED listeners
  /\ StoreStep("clearFilters", JNull)

ResetState ==
  /\ ops < MaxOps
  /\ \E preserveUserPrefs \in BOOLEAN :
       /\ resetState(preserveUserPrefs, storageFull)
       /\ UNCHANGED listeners
       /\ StoreStep("resetState", JBool(preserveUserPrefs))

\* the environment: from now on every setItem throws
StorageFills ==
  /\ ~storageFull
  /\ storageFull' = TRUE
  /\ UNCHANGED <<state, listeners, inlineState, subscribers, storage, log, threw, lastOp,
                 ops, appVars, fnVars>>

StoreNext ==
  \/ StorageFills
  \/ Reload
  \/ Subscribe
  \/ Unsubscribe
  \/ UpdateFilters
  \/ UpdateChartState
  \/ UpdateTableState
  \/ UpdateUIState
  \/ SetLanguage
  \/ ToggleTheme
  \/ ToggleDeckFilter
  \/ ToggleLevelFilter
  \/ ClearFilters
  \/ ResetState

SpecStore == StoreInit /\ [][StoreNext]_vars

----------------------------------------------------------------------------
(* state.js: subscribers that update the store while they are notified. *)
(* notifyListeners calls the callbacks one after the other inside        *)
(* setState; a callback that calls an update runs that update's setState *)
(* to its end before it returns to the forEach that called it.           *)

\* cbUpdates calls updateTableState({ currentPage: 2 }) and returns
UpdatingCallbacks == {"cbUpdates"}

\* the subscriptions the page made, in the order of the subscribe calls
NestedListeners ==
  { [e \in EventTypes |->
       IF e = "filterChange" THEN onFilter
       ELSE IF e = "stateChange" THEN onState
       ELSE IF e = "tableStateChange" THEN <<"cb1">>
       ELSE <<>>] :
    onFilter \in {<<"cbUpdates", "cb1">>, <<"cb1", "cbUpdates">>, <<"cb1", "cbThrows">>,
                  <<"cbThrows", "cb1">>},
    onState \in {<<>>, <<"cb1">>} }

\* setState(updates, eventType) up to its call of notifyListeners: the merge,
\* the write and the calls notifyListeners has to make.  below are the calls
\* of notifyListeners this one runs inside, logged the effects so far.
setStateBegins(updates, eventType, writeFails, below, logged) ==
  LET newState == deepMerge(state, updates) IN
  IF Stringify(newState) # Stringify(state)
  THEN /\ state' = newState
       /\ storage' = saveState(storage, newState, writeFails)
       /\ log' = Append(logged, WriteEntry(storageKey, Json(Stringify(newState)),
                                           ~writeFails))
       /\ frames' = <<notifyListeners(eventType,
                                      EventData(newState, state, updates, JUndef))>>
                    \o below
  ELSE /\ UNCHANGED <<state, storage>>
       /\ log' = logged
       /\ frames' = below

NestedInit ==
  /\ storage = [k \in StorageKeys |-> Absent]
  /\ state = loadState(storage, FALSE).value
  /\ threw = FALSE
  /\ listeners \in NestedListeners
  /\ log = <<>>
  /\ lastOp = Op("constructor", JBool(FALSE))
  /\ storageFull \in BOOLEAN
  /\ ops = 0
  /\ inlineState = JUndef
  /\ subscribers = NoListeners
  /\ AppConstructed
  /\ FnIdle

\* a caller outside any notification calls updateFilters(f)
FiltersUpdateBegins ==
  /\ ops < MaxOps
  /\ frames = <<>>
  /\ \E f \in FilterUpdateInputs :
       /\ setStateBegins(JObj(Fields({<<"filters",
               JObj(SpreadMerge(ObjView(getState(<<"filters">>)), f))>>})),
             "filterChange", storageFull, <<>>, <<>>)
       /\ lastOp' = Op("updateFilters", JObj(f))
  /\ ops' = ops + 1
  /\ UNCHANGED <<listeners, threw, storageFull, inlineState, subscribers, appVars,
                 input, output>>

\* a forEach without the try/catch around the call: the error of a callback
\* ends every notifyListeners in progress and reaches the caller of the update
CallbackRunsUncaught ==
  /\ frames # <<>>
  /\ Head(frames) # <<>>
  /\ LET entry == Head(Head(frames))
         rest == <<Tail(Head(frames))>> \o Tail(frames)
     IN /\ IF entry.cb \in ThrowingCallbacks
           THEN /\ log' = Append(log, entry)
                /\ frames' = <<>>
                /\ threw' = TRUE
                /\ UNCHANGED <<state, storage>>
           ELSE IF entry.cb \in UpdatingCallbacks
           THEN /\ setStateBegins(JObj(Fields({<<"tableStates",
                       JObj(SpreadMerge(ObjView(getState(<<"tableStates">>)),
                                        Fields({<<"currentPage", JNum(2)>>})))>>})),
                     "tableStateChange", storageFull, rest, Append(log, entry))
                /\ UNCHANGED threw
           ELSE /\ log' = Append(log, entry)
                /\ frames' = rest
                /\ UNCHANGED <<state, storage, threw>>
        /\ lastOp' = Op("callback", JStr(entry.cb))
  /\ UNCHANGED <<listeners, storageFull, ops, inlineState, subscribers, appVars,
                 input, output>>

\* the forEach of the innermost notifyListeners calls its next callback
CallbackRuns ==
  /\ frames # <<>>
  /\ Head(frames) # <<>>
  /\ LET entry == Head(Head(frames))
         rest == <<Tail(Head(frames))>> \o Tail(frames)
     IN /\ IF entry.cb \in UpdatingCallbacks
           THEN setStateBegins(JObj(Fields({<<"tableStates",
                    JObj(SpreadMerge(ObjView(getState(<<"tableStates">>)),
                                     Fields({<<"currentPage", JNum(2)>>})))>>})),
                  "tableStateChange", storageFull, rest, Append(log, entry))
           ELSE /\ log' = Append(log, entry)
                /\ frames' = rest
                /\ UNCHANGED <<state, storage>>
        /\ lastOp' = Op("callback", JStr(entry.cb))
  /\ UNCHANGED <<listeners, threw, storageFull, ops, inlineState, subscribers, appVars,
                 input, output>>

\* the innermost notifyListeners has called every callback and returns
NotifyReturns ==
  /\ frames # <<>>
  /\ Head(frames) = <<>>
  /\ frames' = Tail(frames)
  /\ lastOp' = Op("notifyListeners", JUndef)
  /\ UNCHANGED <<state, storage, log, listeners, threw, storageFull, ops, inlineState,
                 subscribers, appVars, input, output>>

NestedNext ==
  \/ FiltersUpdateBegins
  \/ CallbackRuns
  \/ NotifyReturns

SpecNested == NestedInit /\ [][NestedNext]_vars

----------------------------------------------------------------------------
(* Specification of the StateManager of main.js *)

\* the event types the model registers callbacks for with the main.js store
InlineSubscribedTypes == {"stateChange", "filterChange", "themeChange"}

InlineInit ==
  \E themeItem \in InitialThemeItems, languageItem \in InitialLanguageItems,
     readFails \in BOOLEAN :
    /\ storage = [k \in StorageKeys |->
                    CASE k = themeKey -> themeItem
                      [] k = legacyLanguageKey -> languageItem
                      [] OTHER -> Absent]
    /\ storageFull \in BOOLEAN
    /\ inlineState = inlineConstruct(storage, readFails).value
    /\ threw = inlineConstruct(storage, readFails).threw
    /\ subscribers = NoListeners
    /\ log = <<>>
    /\ lastOp = Op("constructor", JBool(readFails))
    /\ ops = 0
    /\ state = JUndef
    /\ listeners = NoListeners
    /\ AppConstructed
    /\ FnIdle

InlineStep(name, arg) ==
  /\ ops' = ops + 1
  /\ lastOp' = Op(name, arg)
  /\ UNCHANGED <<storageFull, state, listeners, appVars, fnVars>>

\* a store exists: the constructor did not throw
InlineAlive == inlineState # JUndef

InlineReload ==
  /\ ops < MaxOps
  /\ \E readFails \in BOOLEAN :
       /\ inlineState' = inlineConstruct(storage, readFails).value
       /\ threw' = inlineConstruct(storage, readFails).threw
       /\ subscribers' = NoListeners
       /\ log' = <<>>
       /\ UNCHANGED storage
       /\ InlineStep("constructor", JBool(readFails))

InlineSubscribe ==
  /\ InlineAlive
  /\ ops < MaxOps
  /\ \E e \in InlineSubscribedTypes, cb \in Callbacks :
       /\ inlineSubscribe(e, cb)
       /\ ops' = ops + 1
       /\ log' = <<>>
       /\ threw' = FALSE
       /\ lastOp' = Op("subscribe", JNull)
       /\ UNCHANGED <<inlineState, storage, storageFull, state, listeners, appVars,
                      fnVars>>

InlineUpdateFilters ==
  /\ InlineAlive
  /\ ops < MaxOps
  /\ \E f \in FilterUpdateInputs :
       /\ inlineUpdateFilters(f)
       /\ UNCHANGED subscribers
       /\ InlineStep("updateFilters", JObj(f))

InlineUpdateChartState ==
  /\ InlineAlive
  /\ ops < MaxOps
  /\ \E c \in ChartUpdateInputs :
       /\ inlineUpdateChartState(c)
       /\ UNCHANGED subscribers
       /\ InlineStep("updateChartState", JObj(c))

InlineUpdateUIState ==
  /\ InlineAlive
  /\ ops < MaxOps
  /\ \E u \in UIUpdateInputs :
       /\ inlineUpdateUIState(u)
       /\ UNCHANGED subscribers
       /\ InlineStep("updateUIState", JObj(u))

InlineToggleLevelFilter ==
  /\ InlineAlive
  /\ ops < MaxOps
  /\ \E l \in Levels :
       /\ inlineToggleLevelFilter(l)
       /\ UNCHANGED subscribers
       /\ InlineStep("toggleLevelFilter", l)

InlineToggleDeckFilter ==
  /\ InlineAlive
  /\ ops < MaxOps
  /\ \E d \in Decks :
       /\ inlineToggleDeckFilter(d)
       /\ UNCHANGED subscribers
       /\ InlineStep("toggleDeckFilter", d)

InlineToggleTheme ==
  /\ InlineAlive
  /\ ops < MaxOps
  /\ inlineToggleTheme(storageFull)
  /\ UNCHANGED subscribers
  /\ InlineStep("toggleTheme", JNull)

InlineSetLanguage ==
  /\ InlineAlive
  /\ ops < MaxOps
  /\ \E l \in Languages \cup {JUndef} :
       /\ inlineSetLanguage(l, storageFull)
       /\ UNCHANGED subscribers
       /\ InlineStep("setLanguage", l)

\* app.js clearAllFilters: this.stateManager.clearFilters()
InlineClearFilters ==
  /\ InlineAlive
  /\ ops < MaxOps
  /\ inlineMissingMethod
  /\ UNCHANGED subscribers
  /\ InlineStep("clearFilters", JNull)

InlineNext ==
  \/ StorageFills
  \/ InlineReload
  \/ InlineSubscribe
  \/ InlineUpdateFilters
  \/ InlineUpdateChartState
  \/ InlineUpdateUIState
  \/ InlineToggleLevelFilter
  \/ InlineToggleDeckFilter
  \/ InlineToggleTheme
  \/ InlineSetLanguage
  \/ InlineClearFilters

SpecInline == InlineInit /\ [][InlineNext]_vars

----------------------------------------------------------------------------
(* data-parser.js: dates, the activity index and the heatmap *)

\* a JavaScript Date at local midnight: year, month 0..11, day of month
MkDate(y, m, d) == [y |-> y, m |-> m, d |-> d]

IsLeapYear(y) == (y % 4 = 0 /\ y % 100 # 0) \/ y % 400 = 0

DaysInMonth(y, m) ==
  CASE m = 1 -> IF IsLeapYear(y) THEN 29 ELSE 28
    [] m \in {3, 5, 8, 10} -> 30
    [] OTHER -> 31

\* date.setDate(date.getDate() + n) for n >= 0: days past the end of the month
\* roll over into the following months
RECURSIVE AddDays(_, _)
AddDays(date, n) ==
  IF date.d + n <= DaysInMonth(date.y, date.m) THEN [date EXCEPT !.d = @ + n]
  ELSE LET rest == n - (DaysInMonth(date.y, date.m) - date.d + 1)
       IN IF date.m < 11 THEN AddDays(MkDate(date.y, date.m + 1, 1), rest)
          ELSE AddDays(MkDate(date.y + 1, 0, 1), rest)

\* a <= b on Dates
DateLeq(a, b) ==
  \/ a.y < b.y
  \/ a.y = b.y /\ a.m < b.m
  \/ a.y = b.y /\ a.m = b.m /\ a.d <= b.d

\* String(n).padStart(2, '0')
Pad2(n) == IF n < 10 THEN "0" \o ToString(n) ELSE ToString(n)

\* DataParser.toLocalDateString(date)
toLocalDateString(date) ==
  ToString(date.y) \o "-" \o Pad2(date.m + 1) \o "-" \o Pad2(date.d)

\* x?.length || 0 for an array or a missing value
LengthOrZero(x) == IF x.t = "arr" THEN Len(x.v) ELSE 0

\* new Date(text), kept as the text it was built from
JDate(text) == [t |-> "date", v |-> text]

\* DataParser.parseActivityLog(activityLog): what the call returns or throws,
\* and the historyData it leaves behind (hist is the historyData before).
\* Object.entries(null) throws, and so does reading .reviews of a day entry
\* that is null; historyData is assigned only after the loop.
parseActivityLog(activityLog, hist) ==
  IF activityLog.t \in {"null", "undefined"}
  THEN [threw |-> TRUE, value |-> JUndef, historyData |-> hist]
  ELSE LET entries == ObjView(activityLog) IN
       IF \E date \in DOMAIN entries : entries[date].t \in {"null", "undefined"}
       THEN [threw |-> TRUE, value |-> JUndef, historyData |-> hist]
       ELSE LET processedActivity ==
                  JObj([date \in DOMAIN entries |->
                    LET activities == ObjView(entries[date]) IN
                    JObj(Fields({
                      <<"date", JDate(date)>>,
                      <<"reviews", Or(Get(activities, "reviews"), JArr(<<>>))>>,
                      <<"newStudies", Or(Get(activities, "new_studies"), JArr(<<>>))>>,
                      <<"totalActivity",
                        JNum(LengthOrZero(Get(activities, "reviews"))
                             + LengthOrZero(Get(activities, "new_studies")))>>}))])
            IN [threw |-> FALSE, value |-> processedActivity,
                historyData |-> processedActivity]

\* DataParser.getIntensityLevel(activity)
getIntensityLevel(activity) ==
  IF activity = 0 THEN 0
  ELSE IF activity <= 5 THEN 1
  ELSE IF activity <= 10 THEN 2
  ELSE IF activity <= 20 THEN 3
  ELSE IF activity <= 30 THEN 4
  ELSE 5

\* leap days before January 1 of year y, counted from year 1
LeapDaysBefore(y) == ((y - 1) \div 4) - ((y - 1) \div 100) + ((y - 1) \div 400)

\* days of the year of date that lie before its month
RECURSIVE DaysBeforeMonth(_, _)
DaysBeforeMonth(y, m) ==
  IF m = 0 THEN 0 ELSE DaysInMonth(y, m - 1) + DaysBeforeMonth(y, m - 1)

\* whole days from 1970-01-01 to date
DayNumber(date) ==
  365 * (date.y - 1970) + (LeapDaysBefore(date.y) - LeapDaysBefore(1970))
  + DaysBeforeMonth(date.y, date.m) + (date.d - 1)

\* how often the body of the loop of getHeatmapData runs: current starts at
\* startDate, moves on by one day each round, and the loop ends with the first
\* current after endDate
LoopRounds(startDate, endDate) ==
  IF DateLeq(startDate, endDate)
  THEN DayNumber(endDate) - DayNumber(startDate) + 1
  ELSE 0

\* the loop of getHeatmapData: one entry per round
HeatmapLoop(startDate, endDate, hist) ==
  [k \in 1..LoopRounds(startDate, endDate) |->
     LET current == AddDays(startDate, k - 1)
         dateStr == toLocalDateString(current)
         activity == Get(ObjView(hist), dateStr)
         totalActivity == Or(getPath(activity, <<"totalActivity">>), JNum(0))
     IN [date |-> current, dateStr |-> dateStr, activity |-> totalActivity.v,
         intensity |-> getIntensityLevel(totalActivity.v)]]

\* DataParser.getHeatmapData(year) on the historyData hist
getHeatmapData(year, hist) ==
  IF ~Truthy(hist) THEN <<>>
  ELSE HeatmapLoop(MkDate(year, 0, 1), MkDate(year, 11, 31), hist)

----------------------------------------------------------------------------
(* Date objects of the cards and the clock *)

\* a Date object: a calendar day and an hour of that day.  The local time
\* zone is taken to be UTC, so local and UTC day agree.
JInstant(date, hour) == [t |-> "instant", date |-> date, hour |-> hour]

\* new Date(text) for a text that is no date: an Invalid Date object
InvalidDate == [t |-> "invalidDate"]

\* Date.getTime() in hours
HoursOf(x) == DayNumber(x.date) * 24 + x.hour

\* Date.getDay(): 0 is Sunday; 1970-01-01 was a Thursday
getDay(date) == (4 + DayNumber(date)) % 7

\* date.setDate(n): n below 1 counts back from the end of the month before
RECURSIVE SetDate(_, _)
SetDate(date, n) ==
  IF n >= 1 THEN AddDays([date EXCEPT !.d = 1], n - 1)
  ELSE LET before == IF date.m > 0 THEN MkDate(date.y, date.m - 1, 1)
                     ELSE MkDate(date.y - 1, 11, 1)
       IN SetDate(before, n + DaysInMonth(before.y, before.m))

\* a.toDateString() === b.toDateString()
SameDay(a, b) == a.t = "instant" /\ b.t = "instant" /\ a.date = b.date

\* current.toISOString().split('T')[0] for the local midnight of date in a
\* zone that is zone hours ahead of UTC: the UTC day of that instant
toISODateString(date, zone) ==
  IF zone > 0 THEN toLocalDateString(SetDate(date, date.d - 1))
  ELSE toLocalDateString(date)

\* the loop of getHeatmapData of js/data-parser.js: one entry per round
HeatmapLoopOfJs(startDate, endDate, hist, zone) ==
  [k \in 1..LoopRounds(startDate, endDate) |->
     LET current == AddDays(startDate, k - 1)
         dateStr == toISODateString(current, zone)
         activity == Get(ObjView(hist), dateStr)
         totalActivity == Or(getPath(activity, <<"totalActivity">>), JNum(0))
     IN [date |-> current, dateStr |-> dateStr, activity |-> totalActivity.v,
         intensity |-> getIntensityLevel(totalActivity.v)]]

\* DataParser.getHeatmapData(year) of js/data-parser.js on the historyData
\* hist, in a zone that is zone hours ahead of UTC
getHeatmapDataOfJs(year, hist, zone) ==
  IF ~Truthy(hist) THEN <<>>
  ELSE HeatmapLoopOfJs(MkDate(year, 0, 1), MkDate(year, 11, 31), hist, zone)

----------------------------------------------------------------------------
(* data-parser.js: summary statistics *)

\* startOfWeek of getNewWordsStats and isCardNewThisWeek
startOfWeek(today) ==
  LET dayOfWeek == getDay(today)
      diff == today.d - dayOfWeek + (IF dayOfWeek = 0 THEN -6 ELSE 1)
  IN SetDate(today, diff)

\* the week loop of getNewWordsStats from date on: the lengths of the
\* newStudies lists of the days up to today, added up
RECURSIVE WeekLoop(_, _, _)
WeekLoop(date, today, hist) ==
  IF ~DateLeq(date, today) THEN 0
  ELSE LET dayActivity == Get(ObjView(hist), toLocalDateString(date))
           newStudies == getPath(dayActivity, <<"newStudies">>)
       IN (IF Truthy(newStudies) THEN LengthOrZero(newStudies) ELSE 0)
          + WeekLoop(AddDays(date, 1), today, hist)

\* DataParser.getNewWordsStats() with historyData hist at the time now
getNewWordsStats(hist, now) ==
  IF ~Truthy(hist)
  THEN Fields({<<"newWordsToday", JNum(0)>>, <<"newWordsThisWeek", JNum(0)>>})
  ELSE LET today == now.date
           todayActivity == Get(ObjView(hist), toLocalDateString(today))
           newWordsToday == LengthOrZero(getPath(todayActivity, <<"newStudies">>))
       IN Fields({<<"newWordsToday", JNum(newWordsToday)>>,
                  <<"newWordsThisWeek", JNum(WeekLoop(startOfWeek(today), today, hist))>>})

\* the sum of day.totalActivity over the days of the index
RECURSIVE TotalActivity(_, _)
TotalActivity(days, keys) ==
  IF keys = {} THEN 0
  ELSE LET k == CHOOSE k \in keys : TRUE
       IN getPath(days[k], <<"totalActivity">>).v + TotalActivity(days, keys \ {k})

\* Math.round(a / b) for a >= 0 and b > 0
RoundDiv(a, b) == (2 * a + b) \div (2 * b)

\* DataParser.getSummaryStats(cards) with historyData hist at the time now
getSummaryStats(cards, hist, now) ==
  IF ~Truthy(cards) \/ Len(cards.v) = 0
  THEN JObj(Fields({<<"totalCards", JNum(0)>>, <<"studiedToday", JNum(0)>>,
                    <<"averageDaily", JNum(0)>>, <<"longestStreak", JNum(0)>>,
                    <<"currentStreak", JNum(0)>>, <<"newWordsToday", JNum(0)>>,
                    <<"newWordsThisWeek", JNum(0)>>}))
  ELSE LET studiedToday ==
             Len(SelectSeq(cards.v, LAMBDA card :
                   LET lastReview == getPath(card, <<"lastReviewDate">>)
                   IN Truthy(lastReview) /\ SameDay(lastReview, now)))
           totalDays == Cardinality(DOMAIN ObjView(hist))
           averageDaily ==
             IF Truthy(hist) /\ totalDays > 0
             THEN RoundDiv(TotalActivity(ObjView(hist), DOMAIN ObjView(hist)), totalDays)
             ELSE 0
       IN JObj(SpreadMerge(
            Fields({<<"totalCards", JNum(Len(cards.v))>>,
                    <<"studiedToday", JNum(studiedToday)>>,
                    <<"averageDaily", JNum(averageDaily)>>,
                    <<"longestStreak", JNum(0)>>,
                    <<"currentStreak", JNum(0)>>}),
            getNewWordsStats(hist, now)))

----------------------------------------------------------------------------
(* data-parser.js: the timeline *)

\* new Date(date.getTime() + n * 24 * 60 * 60 * 1000) for n >= 0
PlusDays(x, n) == JInstant(AddDays(x.date, n), x.hour)

\* new Date(year, month, day): midnight; a month of -1 is December of the
\* year before, a day past the end of the month rolls over
DateOfParts(year, month, day) ==
  LET first == IF month < 0 THEN MkDate(year - 1, month + 12, 1) ELSE MkDate(year, month, 1)
  IN JInstant(AddDays(first, day - 1), 0)

\* the for loop of generateDateRange from current on, increment in days
RECURSIVE RangeLoop(_, _, _, _)
RangeLoop(current, end, increment, dates) ==
  IF HoursOf(current) > HoursOf(end) THEN dates
  ELSE RangeLoop(PlusDays(current, increment), end, increment, Append(dates, current))

\* DataParser.generateDateRange(timeframe, endDate)
generateDateRange(timeframe, endDate) ==
  LET end == endDate
      start == CASE timeframe = "week" -> JInstant(SetDate(end.date, end.date.d - 7), end.hour)
                 [] timeframe = "month" ->
                      DateOfParts(end.date.y, end.date.m - 1, end.date.d)
                 [] timeframe = "year" -> DateOfParts(end.date.y - 1, end.date.m, end.date.d)
                 [] OTHER -> JInstant(SetDate(end.date, end.date.d - 30), end.hour)
      increment == IF timeframe = "year" THEN 7 ELSE 1
  IN RangeLoop(start, end, increment, <<>>)

\* activity?.reviews.length || 0 and activity?.newStudies.length || 0
EventsOn(hist, date, list) ==
  LET activity == Get(ObjView(hist), toLocalDateString(date))
  IN IF Truthy(activity) THEN LengthOrZero(getPath(activity, <<list>>)) ELSE 0

\* DataParser.getTimelineData(timeframe) with historyData hist at the time
\* now: the labels (kept as the dates they format) and the two data series
getTimelineData(timeframe, hist, now) ==
  IF ~Truthy(hist) THEN [labels |-> <<>>, datasets |-> <<>>]
  ELSE LET dates == generateDateRange(timeframe, now)
       IN [labels |-> [i \in 1..Len(dates) |-> dates[i].date],
           datasets |-> << [i \in 1..Len(dates) |-> EventsOn(hist, dates[i].date, "reviews")],
                           [i \in 1..Len(dates) |->
                              EventsOn(hist, dates[i].date, "newStudies")] >>]

----------------------------------------------------------------------------
(* data-parser.js: the filter *)

\* a string whose characters matter, spelled out one character per element
JChars(seq) == [t |-> "chars", v |-> seq]

\* String.prototype.toLowerCase on the letters the model uses
LowerChar(c) ==
  CASE c = "K" -> "k"
    [] c = "A" -> "a"
    [] c = "L" -> "l"
    [] OTHER -> c

toLowerCase(chars) == [i \in 1..Len(chars) |-> LowerChar(chars[i])]

\* the characters String.prototype.trim removes
IsSpace(c) == c \in {" ", "\t", "\r", "\n"}

RECURSIVE TrimStart(_)
TrimStart(chars) ==
  IF chars # <<>> /\ IsSpace(Head(chars)) THEN TrimStart(Tail(chars)) ELSE chars

RECURSIVE TrimEnd(_)
TrimEnd(chars) ==
  IF chars # <<>> /\ IsSpace(chars[Len(chars)])
  THEN TrimEnd(SubSeq(chars, 1, Len(chars) - 1)) ELSE chars

\* String.prototype.trim
trim(chars) == TrimEnd(TrimStart(chars))

\* text.includes(query)
includes(text, query) ==
  \E i \in 1..(Len(text) - Len(query) + 1) :
     SubSeq(text, i, i + Len(query) - 1) = query

\* the characters of x, or of '' when x is falsy: (x || '')
CharsOrEmpty(x) == IF Truthy(x) THEN x.v ELSE <<>>

\* the days new Date('YYYY-MM-DD') is asked to read
Calendar == { MkDate(2024, m, d) : m \in 4..5, d \in 1..31 }

\* new Date(text) for a date-only text: midnight UTC of that day
DateOfText(text) ==
  IF \E date \in Calendar :
        date.d <= DaysInMonth(date.y, date.m) /\ toLocalDateString(date) = text
  THEN JInstant(CHOOSE date \in Calendar :
                  date.d <= DaysInMonth(date.y, date.m) /\ toLocalDateString(date) = text,
                0)
  ELSE InvalidDate

\* a < b on Date objects: false as soon as one of them is an Invalid Date
DateBefore(a, b) == a.t = "instant" /\ b.t = "instant" /\ HoursOf(a) < HoursOf(b)

\* card.ankiLevel || card.anki_level || card.level || card.Level, or 'Unknown'
LevelOf(card) ==
  LET level == Or(Get(ObjView(card), "ankiLevel"),
                  Or(Get(ObjView(card), "anki_level"),
                     Or(Get(ObjView(card), "level"), Get(ObjView(card), "Level"))))
  IN IF ~Truthy(level) THEN JStr("Unknown") ELSE level

\* card.deckName || card.deck_name
DeckOf(card) == Or(Get(ObjView(card), "deckName"), Get(ObjView(card), "deck_name"))

\* newStudies.some(study => (study.note_id || study.noteId) === noteId)
SomeStudyOf(newStudies, noteId) ==
  \E i \in 1..LengthOrZero(newStudies) :
     Or(Get(ObjView(newStudies.v[i]), "note_id"),
        Get(ObjView(newStudies.v[i]), "noteId")) = noteId

\* DataParser.isCardNewToday(card)
isCardNewToday(card, hist, now) ==
  IF ~Truthy(hist) THEN FALSE
  ELSE LET todayActivity == Get(ObjView(hist), toLocalDateString(now.date))
           newStudies == getPath(todayActivity, <<"newStudies">>)
           noteId == Or(Get(ObjView(card), "noteId"), Get(ObjView(card), "note_id"))
       IN Truthy(todayActivity) /\ Truthy(newStudies) /\ SomeStudyOf(newStudies, noteId)

\* the loop of isCardNewThisWeek from date on
RECURSIVE FoundThisWeek(_, _, _, _)
FoundThisWeek(date, today, hist, noteId) ==
  IF ~DateLeq(date, today) THEN FALSE
  ELSE LET dayActivity == Get(ObjView(hist), toLocalDateString(date))
           newStudies == getPath(dayActivity, <<"newStudies">>)
       IN \/ Truthy(dayActivity) /\ Truthy(newStudies) /\ SomeStudyOf(newStudies, noteId)
          \/ FoundThisWeek(AddDays(date, 1), today, hist, noteId)

\* DataParser.isCardNewThisWeek(card)
isCardNewThisWeek(card, hist, now) ==
  IF ~Truthy(hist) THEN FALSE
  ELSE FoundThisWeek(startOfWeek(now.date), now.date, hist,
                     Or(Get(ObjView(card), "noteId"), Get(ObjView(card), "note_id")))

\* DataParser.isCardStudiedToday(card)
isCardStudiedToday(card, now) ==
  LET lastReview == Get(ObjView(card), "lastReviewDate")
  IN Truthy(lastReview) /\ SameDay(lastReview, now)

\* the callback of cards.filter with the level check left out
KeepsCardNoLevel(card, filters, hist, now) ==
  LET f == ObjView(filters)
      selectedDecks == Get(f, "selectedDecks")
      searchQuery == Get(f, "searchQuery")
      dateRange == Get(f, "dateRange")
      start == getPath(dateRange, <<"start">>)
      end == getPath(dateRange, <<"end">>)
      statFilter == Get(f, "statFilter")
      cardDate == Or(Get(ObjView(card), "lastReviewDate"),
                     Get(ObjView(card), "firstStudyDate"))
  IN IF Truthy(selectedDecks) /\ Len(selectedDecks.v) > 0
        /\ DeckOf(card) \notin SeqToSet(selectedDecks.v)
     THEN FALSE
     ELSE IF Truthy(searchQuery) /\ trim(searchQuery.v) # <<>>
             /\ LET query == toLowerCase(searchQuery.v)
                    finnish == toLowerCase(CharsOrEmpty(Get(ObjView(card), "finnish")))
                    translation ==
                      toLowerCase(CharsOrEmpty(Get(ObjView(card), "translation")))
                IN ~includes(finnish, query) /\ ~includes(translation, query)
     THEN FALSE
     ELSE IF Truthy(dateRange) /\ (Truthy(start) \/ Truthy(end))
             /\ \/ ~Truthy(cardDate)
                \/ Truthy(start) /\ DateBefore(cardDate, DateOfText(start.v))
                \/ Truthy(end) /\ DateBefore(DateOfText(end.v), cardDate)
     THEN FALSE
     ELSE IF Truthy(statFilter)
     THEN LET type == getPath(statFilter, <<"type">>)
          IN CASE type = JStr("newWordsToday") -> isCardNewToday(card, hist, now)
               [] type = JStr("newWordsThisWeek") -> isCardNewThisWeek(card, hist, now)
               [] type = JStr("studiedToday") -> isCardStudiedToday(card, now)
               [] OTHER -> TRUE
     ELSE TRUE

\* the callback of cards.filter in filterCards: TRUE iff the card is kept
KeepsCard(card, filters, hist, now) ==
  LET f == ObjView(filters)
      selectedDecks == Get(f, "selectedDecks")
      selectedLevels == Get(f, "selectedLevels")
      searchQuery == Get(f, "searchQuery")
      dateRange == Get(f, "dateRange")
      start == getPath(dateRange, <<"start">>)
      end == getPath(dateRange, <<"end">>)
      statFilter == Get(f, "statFilter")
      cardDate == Or(Get(ObjView(card), "lastReviewDate"),
                     Get(ObjView(card), "firstStudyDate"))
  IN IF Truthy(selectedDecks) /\ Len(selectedDecks.v) > 0
        /\ DeckOf(card) \notin SeqToSet(selectedDecks.v)
     THEN FALSE
     ELSE IF Truthy(selectedLevels) /\ Len(selectedLevels.v) > 0
             /\ LevelOf(card) \notin SeqToSet(selectedLevels.v)
     THEN FALSE
     ELSE IF Truthy(searchQuery) /\ trim(searchQuery.v) # <<>>
             /\ LET query == toLowerCase(searchQuery.v)
                    finnish == toLowerCase(CharsOrEmpty(Get(ObjView(card), "finnish")))
                    translation ==
                      toLowerCase(CharsOrEmpty(Get(ObjView(card), "translation")))
                IN ~includes(finnish, query) /\ ~includes(translation, query)
     THEN FALSE
     ELSE IF Truthy(dateRange) /\ (Truthy(start) \/ Truthy(end))
             /\ \/ ~Truthy(cardDate)
                \/ Truthy(start) /\ DateBefore(cardDate, DateOfText(start.v))
                \/ Truthy(end) /\ DateBefore(DateOfText(end.v), cardDate)
     THEN FALSE
     ELSE IF Truthy(statFilter)
     THEN LET type == getPath(statFilter, <<"type">>)
          IN CASE type = JStr("newWordsToday") -> isCardNewToday(card, hist, now)
               [] type = JStr("newWordsThisWeek") -> isCardNewThisWeek(card, hist, now)
               [] type = JStr("studiedToday") -> isCardStudiedToday(card, now)
               [] OTHER -> TRUE
     ELSE TRUE

\* filterCards with the check for a card date made outside the date range block
filterCardsDatedOnly(cards, filters, hist, now) ==
  IF ~Truthy(cards) THEN JArr(<<>>)
  ELSE JArr(SelectSeq(cards.v, LAMBDA card :
         /\ Truthy(Or(Get(ObjView(card), "lastReviewDate"),
                      Get(ObjView(card), "firstStudyDate")))
         /\ KeepsCard(card, filters, hist, now)))

\* DataParser.filterCards(cards, filters) with historyData hist at the time now
filterCards(cards, filters, hist, now) ==
  IF ~Truthy(cards) THEN JArr(<<>>)
  ELSE JArr(SelectSeq(cards.v, LAMBDA card : KeepsCard(card, filters, hist, now)))

----------------------------------------------------------------------------
(* data-parser.js: the CSV reader.  A text is the sequence of its pieces:  *)
(* each of the characters , " space and line feed is a piece of its own,   *)
(* and a run of other characters is one piece.  Appending a run to current *)
(* is what the character loop does with it one character at a time.        *)

NaN == [t |-> "nan"]

\* the string a sequence of pieces spells
RECURSIVE StringOf(_)
StringOf(pieces) ==
  IF pieces = <<>> THEN "" ELSE Head(pieces) \o StringOf(Tail(pieces))

\* text.split('\n')
RECURSIVE SplitLoop(_, _, _, _)
SplitLoop(text, i, current, lines) ==
  IF i > Len(text) THEN Append(lines, current)
  ELSE IF text[i] = "\n" THEN SplitLoop(text, i + 1, <<>>, Append(lines, current))
  ELSE SplitLoop(text, i + 1, Append(current, text[i]), lines)

split(text) == SplitLoop(text, 1, <<>>, <<>>)

\* the for loop of parseCSVLine from position i on
RECURSIVE LineLoop(_, _, _, _, _)
LineLoop(line, i, current, inQuotes, result) ==
  IF i > Len(line) THEN Append(result, StringOf(trim(current)))
  ELSE LET char == line[i]
       IN IF char = "\""
          THEN IF inQuotes /\ i + 1 <= Len(line) /\ line[i + 1] = "\""
               THEN LineLoop(line, i + 2, Append(current, "\""), inQuotes, result)
               ELSE LineLoop(line, i + 1, current, ~inQuotes, result)
          ELSE IF char = "," /\ ~inQuotes
          THEN LineLoop(line, i + 1, <<>>, inQuotes,
                        Append(result, StringOf(trim(current))))
          ELSE LineLoop(line, i + 1, Append(current, char), inQuotes, result)

\* DataParser.parseCSVLine(line): the fields of the line as strings
parseCSVLine(line) == LineLoop(line, 1, <<>>, FALSE, <<>>)

\* JSON.parse(text) of the fields column: the value, or thrown
JsonParse(text) ==
  IF text = "{}" THEN [ok |-> TRUE, value |-> JObj(EmptyFields)]
  ELSE [ok |-> FALSE, value |-> JUndef]

\* Math.floor((now - date) / (1000 * 60 * 60 * 24)), NaN for an Invalid Date
DaysBetween(later, earlier) ==
  IF later.t = "instant" /\ earlier.t = "instant"
  THEN JNum((HoursOf(later) - HoursOf(earlier)) \div 24)
  ELSE NaN

\* a > n on numbers: false for NaN
GreaterThan(a, n) == a.t = "num" /\ a.v > n

\* DataParser.isCardOverdue(level, lastReview) at the time now
isCardOverdue(level, lastReview, now) ==
  IF ~Truthy(lastReview) THEN FALSE
  ELSE LET daysSince == DaysBetween(now, lastReview)
       IN CASE level = JStr("New") -> FALSE
            [] level = JStr("Learning") -> GreaterThan(daysSince, 1)
            [] level = JStr("Young") -> GreaterThan(daysSince, 7)
            [] level = JStr("Mature") -> GreaterThan(daysSince, 21)
            [] level = JStr("Relearning") -> GreaterThan(daysSince, 1)
            [] OTHER -> FALSE

\* DataParser.calculateStudyStreak(firstStudy, lastReview)
calculateStudyStreak(firstStudy, lastReview) ==
  IF ~Truthy(firstStudy) \/ ~Truthy(lastReview) THEN JNum(0)
  ELSE DaysBetween(lastReview, firstStudy)

\* deck_name.split('::'): the deck names of the inputs hold at most one '::'
deckHierarchy(name) ==
  CASE name = "Finnish::Verbs" -> <<JStr("Finnish"), JStr("Verbs")>>
    [] OTHER -> <<JStr(name)>>

\* DataParser.processCard(card) at the time now; card holds the fields of a row
processCard(card, now) ==
  LET fieldsData == IF Truthy(Get(card, "fields")) /\ JsonParse(card["fields"].v).ok
                    THEN JsonParse(card["fields"].v).value
                    ELSE JObj(EmptyFields)
      firstStudyDate == IF Truthy(Get(card, "first_study_date"))
                        THEN DateOfText(card["first_study_date"].v) ELSE JNull
      lastReviewDate == IF Truthy(Get(card, "last_review_date"))
                        THEN DateOfText(card["last_review_date"].v) ELSE JNull
      found == Or(Get(card, "anki_level"),
                  Or(Get(card, "ankiLevel"), Or(Get(card, "level"), Get(card, "Level"))))
      ankiLevel == IF ~Truthy(found) THEN JStr("Unknown") ELSE found
  IN JObj(SpreadMerge(card, Fields({
       <<"noteId", Get(card, "note_id")>>,
       <<"ankiLevel", ankiLevel>>,
       <<"deckName", Get(card, "deck_name")>>,
       <<"firstStudyDate", firstStudyDate>>,
       <<"lastReviewDate", lastReviewDate>>,
       <<"finnish", Or(Get(card, "finnish"), JStr(""))>>,
       <<"translation", Or(Get(card, "translation"), JStr(""))>>,
       <<"fields", fieldsData>>,
       <<"daysSinceFirstStudy", IF Truthy(firstStudyDate)
                                THEN DaysBetween(now, firstStudyDate) ELSE JNull>>,
       <<"daysSinceLastReview", IF Truthy(lastReviewDate)
                                THEN DaysBetween(now, lastReviewDate) ELSE JNull>>,
       <<"deckHierarchy", IF Truthy(Get(card, "deck_name"))
                          THEN JArr(deckHierarchy(card["deck_name"].v)) ELSE JArr(<<>>)>>,
       <<"isOverdue", JBool(isCardOverdue(Get(card, "anki_level"), lastReviewDate, now))>>,
       <<"studyStreak", calculateStudyStreak(firstStudyDate, lastReviewDate)>>})))

\* DataParser.processCard(card) of js/data-parser.js at the time now: the
\* level is the anki_level column as it is
processCardOfJs(card, now) ==
  LET fieldsData == IF Truthy(Get(card, "fields")) /\ JsonParse(card["fields"].v).ok
                    THEN JsonParse(card["fields"].v).value
                    ELSE JObj(EmptyFields)
      firstStudyDate == IF Truthy(Get(card, "first_study_date"))
                        THEN DateOfText(card["first_study_date"].v) ELSE JNull
      lastReviewDate == IF Truthy(Get(card, "last_review_date"))
                        THEN DateOfText(card["last_review_date"].v) ELSE JNull
  IN JObj(SpreadMerge(card, Fields({
       <<"noteId", Get(card, "note_id")>>,
       <<"ankiLevel", Get(card, "anki_level")>>,
       <<"deckName", Get(card, "deck_name")>>,
       <<"firstStudyDate", firstStudyDate>>,
       <<"lastReviewDate", lastReviewDate>>,
       <<"finnish", Or(Get(card, "finnish"), JStr(""))>>,
       <<"translation", Or(Get(card, "translation"), JStr(""))>>,
       <<"fields", fieldsData>>,
       <<"daysSinceFirstStudy", IF Truthy(firstStudyDate)
                                THEN DaysBetween(now, firstStudyDate) ELSE JNull>>,
       <<"daysSinceLastReview", IF Truthy(lastReviewDate)
                                THEN DaysBetween(now, lastReviewDate) ELSE JNull>>,
       <<"deckHierarchy", IF Truthy(Get(card, "deck_name"))
                          THEN JArr(deckHierarchy(card["deck_name"].v)) ELSE JArr(<<>>)>>,
       <<"isOverdue", JBool(isCardOverdue(Get(card, "anki_level"), lastReviewDate, now))>>,
       <<"studyStreak", calculateStudyStreak(firstStudyDate, lastReviewDate)>>})))

\* headers.forEach((header, index) => card[header] = values[index]): a header
\* met again overwrites the value of the earlier one
RowCard(headers, values) ==
  [h \in {headers[i] : i \in 1..Len(headers)} |->
     JStr(values[CHOOSE i \in 1..Len(headers) :
            headers[i] = h /\ \A j \in (i + 1)..Len(headers) : headers[j] # h])]

\* the for loop of parseCSV stopping at the first line it cannot use
RECURSIVE RowLoopStopsAtMismatch(_, _, _, _, _, _)
RowLoopStopsAtMismatch(lines, headers, i, data, warned, now) ==
  IF i > Len(lines) THEN [data |-> JArr(data), warned |-> warned]
  ELSE LET values == parseCSVLine(lines[i])
       IN IF Len(values) = Len(headers)
          THEN RowLoopStopsAtMismatch(lines, headers, i + 1,
                       Append(data, processCard(RowCard(headers, values), now)), warned, now)
          ELSE [data |-> JArr(data), warned |-> Append(warned, i)]

\* the for loop of parseCSV from line i on (lines are numbered from 1 here
\* as in the warning text); warned lists the lines console.warn named
RECURSIVE RowLoop(_, _, _, _, _, _)
RowLoop(lines, headers, i, data, warned, now) ==
  IF i > Len(lines) THEN [data |-> JArr(data), warned |-> warned]
  ELSE LET values == parseCSVLine(lines[i])
       IN IF Len(values) = Len(headers)
          THEN RowLoop(lines, headers, i + 1,
                       Append(data, processCard(RowCard(headers, values), now)), warned, now)
          ELSE RowLoop(lines, headers, i + 1, data, Append(warned, i), now)

\* DataParser.parseCSV(csvText) at the time now: the records returned and the
\* line numbers of the warnings
parseCSV(text, now) ==
  LET lines == split(trim(text))
      headers == parseCSVLine(lines[1])
  IN RowLoop(lines, headers, 2, <<>>, <<>>, now)

----------------------------------------------------------------------------
(* app.js and charts.js: loading the data and drawing the heatmap *)

\* one more refresh() or year change may still start
MaxRuns == 1

csvPaths == <<"/anki_stats.csv", "./anki_stats.csv", "anki_stats.csv">>
activityPaths == <<"/activity_log.json", "./activity_log.json", "activity_log.json">>

\* entries of the activity log as the exporter writes them
Event(noteId) == JObj(Fields({<<"note_id", JStr(noteId)>>}))

Day(reviews, newStudies) ==
  JObj(Fields({<<"reviews", JArr(reviews)>>, <<"new_studies", JArr(newStudies)>>}))

\* bodies a CSV response delivers: csvResponse.text()
CsvBodies ==
  { JChars(<<>>),
    JChars(<<"note_id", ",", "deck_name", "\n", "1", ",", "A">>),
    JChars(<<"note_id", ",", "deck_name", "\n", "2", ",", "B", "\n", "3">>) }

\* the time of the load: new Date() in processCard
LoadClock == JInstant(MkDate(2025, 0, 1), 0)

\* values activityResponse.json() delivers
ActivityJsons ==
  { JObj(Fields({<<"2024-06-01", Day(<<Event("n1")>>, <<Event("n2")>>)>>})),
    JObj(Fields({<<"daily_activity",
       JObj(Fields({<<"2025-01-01", Day(<<Event("n1"), Event("n3")>>, <<Event("n2")>>)>>,
                    <<"2024-12-31", Day(<<>>, <<>>)>>}))>>})),
    JObj(Fields({<<"2024-06-01", JObj(Fields({<<"reviews", JArr(<<Event("n1")>>)>>}))>>})),
    JObj(Fields({<<"2024-06-01", JNull>>})),
    JObj(EmptyFields),
    JNull }

\* the years the heatmapYear select offers
HeatmapYears == {2024, 2025}

\* when the run wrote lastDataUpdate: new Date().toISOString()
Now == JStr("2025-01-01T00:00:00.000Z")

\* the subscriptions ChartsManager's constructor makes
chartsSubscriptions ==
  [e \in EventTypes |->
     IF e \in {"languageChange", "themeChange", "filterChange"} THEN <<"cb1">> ELSE <<>>]

\* AnkiStatsApp.setupStateSubscriptions(): one more callback on each of these
setupStateSubscriptions(subscr) ==
  [e \in EventTypes |->
     IF e \in {"filterChange", "languageChange", "themeChange"}
     THEN Append(subscr[e], "cb1") ELSE subscr[e]]

\* x.daily_activity || x
DailyOf(x) == Or(Get(ObjView(x), "daily_activity"), x)

\* loadData whose activityData stays null when no activity log could be used
loadActivityLeavesNull(activityJson, hist) ==
  IF Truthy(activityJson)
  THEN LET dailyActivity == DailyOf(activityJson)
           parsed == parseActivityLog(dailyActivity, hist)
       IN IF parsed.threw
          THEN [activityData |-> JNull, historyData |-> hist, rawDaily |-> JUndef]
          ELSE [activityData |-> parsed.value, historyData |-> parsed.historyData,
                rawDaily |-> dailyActivity]
  ELSE [activityData |-> JNull, historyData |-> hist, rawDaily |-> JUndef]

\* the activity part of loadData once the fetch loop has ended with activityJson
\* (undefined when no path delivered one): activityData, what the parser holds,
\* and the raw mapping that was normalized
loadActivity(activityJson, hist) ==
  IF Truthy(activityJson)
  THEN LET dailyActivity == DailyOf(activityJson)
           parsed == parseActivityLog(dailyActivity, hist)
       IN IF parsed.threw
          THEN [activityData |-> JObj(EmptyFields), historyData |-> hist,
                rawDaily |-> JUndef]
          ELSE [activityData |-> parsed.value, historyData |-> parsed.historyData,
                rawDaily |-> dailyActivity]
  ELSE [activityData |-> JObj(EmptyFields), historyData |-> hist, rawDaily |-> JUndef]

\* initializeCharts that leaves the parser's index as loadData left it
initializeChartsKeepsIndex(activity, hist) ==
  [threw |-> FALSE, value |-> JUndef, historyData |-> hist]

\* ChartsManager.initializeCharts: the historyData the parser holds afterwards
initializeCharts(activity, hist) ==
  IF Truthy(activity)
  THEN parseActivityLog(DailyOf(activity), hist)
  ELSE [threw |-> FALSE, value |-> JUndef, historyData |-> hist]

\* ChartsManager.createActivityHeatmap() on the store st and the index hist
createActivityHeatmap(st, hist) ==
  LET year == getPath(st, <<"chartStates", "heatmapYear">>).v
  IN /\ heatmapData' = getHeatmapData(year, hist)
     /\ heatmapYear' = year

AppInit ==
  /\ storage = [k \in StorageKeys |-> Absent]
  /\ storageFull = FALSE
  /\ inlineState = inlineInitialState(storage)
  /\ subscribers = chartsSubscriptions
  /\ state = JUndef
  /\ listeners = NoListeners
  /\ log = <<>>
  /\ threw = FALSE
  /\ lastOp = Op("constructor", JBool(FALSE))
  /\ ops = 0
  /\ AppConstructed
  /\ FnIdle

\* init() up to its first await, or refresh() up to its first await
RunBegins(name) ==
  /\ run' = name
  /\ isLoading' = TRUE
  /\ appPhase' = "csv"
  /\ attempt' = 1
  /\ csvText' = JUndef
  /\ lastOp' = Op(name, JUndef)
  /\ UNCHANGED <<errorShown, activityData, historyData, heatmapData, heatmapYear,
                 rawDaily, cardsData, chartsCards, tableCards, activeCards>>
  /\ UNCHANGED <<state, listeners, inlineState, storage, storageFull, log, threw, fnVars>>

InitBegins ==
  /\ appPhase = "constructed"
  /\ subscribers' = setupStateSubscriptions(subscribers)
  /\ UNCHANGED ops
  /\ RunBegins("init")

RefreshBegins ==
  /\ ops < MaxRuns
  /\ appPhase = "idle"
  /\ ops' = ops + 1
  /\ UNCHANGED subscribers
  /\ RunBegins("refresh")

\* a catch block that reports the error and leaves the loading state on
RunFailsStillLoading ==
  /\ isLoading' = isLoading
  /\ errorShown' = TRUE
  /\ appPhase' = "idle"
  /\ attempt' = 0

\* the catch block of init() or refresh(): loadData rejected
RunFails ==
  /\ isLoading' = FALSE
  /\ errorShown' = TRUE
  /\ appPhase' = "idle"
  /\ attempt' = 0

\* the pending fetch of csvPaths[attempt] settles
CsvFetchSettles ==
  /\ appPhase = "csv"
  /\ \E outcome \in {"ok", "notOk", "throws"}, body \in CsvBodies :
       /\ outcome # "ok" => body = JChars(<<>>)
       /\ IF outcome = "ok" /\ Truthy(body)
          THEN /\ csvText' = body
               /\ cardsData' = parseCSV(body.v, LoadClock).data
               /\ appPhase' = "activity"
               /\ attempt' = 1
               /\ UNCHANGED <<isLoading, errorShown>>
          ELSE IF outcome # "ok" /\ attempt < Len(csvPaths)
          THEN /\ attempt' = attempt + 1
               /\ UNCHANGED <<appPhase, isLoading, errorShown, csvText, cardsData>>
          ELSE /\ csvText' = IF outcome = "ok" THEN body ELSE JUndef
               /\ UNCHANGED cardsData
               /\ RunFails
       /\ lastOp' = Op("csvFetch", JStr(outcome))
  /\ UNCHANGED <<run, activityData, historyData, heatmapData, heatmapYear, rawDaily,
                 chartsCards, tableCards, activeCards>>
  /\ UNCHANGED <<state, listeners, inlineState, subscribers, storage, storageFull, log,
                 threw, ops, fnVars>>

\* the pending fetch of activityPaths[attempt] settles; once the loop is over
\* the rest of loadData, initializeComponents and the tail of init() or
\* refresh() run without another wait
ActivityFetchSettles ==
  /\ appPhase = "activity"
  /\ \E outcome \in {"ok", "notOk", "throws"}, json \in ActivityJsons :
       /\ outcome # "ok" => json = JNull
       /\ IF outcome # "ok" /\ attempt < Len(activityPaths)
          THEN /\ attempt' = attempt + 1
               /\ UNCHANGED <<appPhase, isLoading, errorShown, activityData,
                              historyData, heatmapData, heatmapYear, rawDaily,
                              inlineState, chartsCards, tableCards>>
          ELSE LET activityJson == IF outcome = "ok" THEN json ELSE JUndef
                   loaded == loadActivity(activityJson, historyData)
                   charts == initializeCharts(loaded.activityData, loaded.historyData)
               IN /\ activityData' = loaded.activityData
                  /\ rawDaily' = loaded.rawDaily
                  /\ historyData' = charts.historyData
                  /\ chartsCards' = cardsData
                  /\ createActivityHeatmap(inlineState, charts.historyData)
                  /\ tableCards' = cardsData
                  /\ isLoading' = FALSE
                  /\ errorShown' = FALSE
                  /\ inlineState' = WithField(inlineState, "uiStates",
                       JObj(SpreadMerge(ObjView(inlineGetState(<<"uiStates">>)),
                                        Fields({<<"lastDataUpdate", Now>>}))))
                  /\ appPhase' = "idle"
                  /\ attempt' = 0
       /\ lastOp' = Op("activityFetch", JStr(outcome))
  /\ UNCHANGED <<run, csvText, cardsData, activeCards>>
  /\ UNCHANGED <<state, listeners, subscribers, storage, storageFull, log, threw, ops,
                 fnVars>>

\* the change handler of the heatmapYear select, bound by setupEventListeners:
\* ChartsManager.updateHeatmapYear(year)
UpdateHeatmapYear ==
  /\ ops < MaxRuns
  /\ appPhase # "constructed"
  /\ \E year \in HeatmapYears :
       /\ inlineUpdateChartState(Fields({<<"heatmapYear", JNum(year)>>}))
       /\ heatmapData' = getHeatmapData(year, historyData)
       /\ heatmapYear' = year
       /\ lastOp' = Op("updateHeatmapYear", JNum(year))
  /\ ops' = ops + 1
  /\ UNCHANGED <<appPhase, run, attempt, isLoading, errorShown, csvText, activityData,
                 historyData, rawDaily, cardsData, chartsCards, tableCards, activeCards>>
  /\ UNCHANGED <<state, listeners, subscribers, storageFull, fnVars>>

AppNext ==
  \/ InitBegins
  \/ RefreshBegins
  \/ CsvFetchSettles
  \/ ActivityFetchSettles
  \/ UpdateHeatmapYear

\* a pending fetch settles: its promise is fulfilled or rejected in the end.
\* The second conjunct is WF_vars(ActivityFetchSettles) with
\* ENABLED <<ActivityFetchSettles>>_vars written as the guard it amounts to.
AppFairness ==
  /\ WF_vars(CsvFetchSettles)
  /\ \/ []<>(appPhase # "activity")
     \/ []<><<ActivityFetchSettles>>_vars

SpecAppFair == AppInit /\ [][AppNext]_vars /\ AppFairness

SpecApp == AppInit /\ [][AppNext]_vars

----------------------------------------------------------------------------
(* parseActivityLog as a function of its argument *)

\* what one date of the mapping may hold; "absent" leaves the date out
DayEntries ==
  { JNull, JObj(EmptyFields),
    JObj(Fields({<<"reviews", JArr(<<>>)>>})),
    JObj(Fields({<<"reviews", JArr(<<Event("n1")>>)>>})),
    JObj(Fields({<<"new_studies", JArr(<<Event("n2")>>)>>})),
    Day(<<Event("n1")>>, <<Event("n2")>>),
    Day(<<Event("n1"), Event("n3")>>, <<Event("n2")>>) }

ParseDates == {"2024-06-01", "2024-06-02"}

ParseMappings == { JObj(f) : f \in UNION { [dates -> DayEntries] : dates \in SUBSET ParseDates } }

ParseInit ==
  /\ input \in {JNull, JUndef} \cup ParseMappings
  /\ output = JUndef
  /\ frames = <<>>
  /\ storage = [k \in StorageKeys |-> Absent]
  /\ storageFull = FALSE
  /\ inlineState = JUndef
  /\ subscribers = NoListeners
  /\ state = JUndef
  /\ listeners = NoListeners
  /\ log = <<>>
  /\ threw = FALSE
  /\ lastOp = Op("constructor", JBool(FALSE))
  /\ ops = 0
  /\ AppConstructed

\* dataParser.parseActivityLog(input) on a fresh DataParser
ParseActivityLog ==
  /\ output = JUndef
  /\ LET r == parseActivityLog(input, historyData)
     IN /\ output' = [threw |-> r.threw, value |-> r.value]
        /\ historyData' = r.historyData
        /\ threw' = r.threw
  /\ lastOp' = Op("parseActivityLog", input)
  /\ UNCHANGED <<input, frames, state, listeners, inlineState, subscribers, storage, storageFull,
                 log, ops>>
  /\ UNCHANGED <<appPhase, run, attempt, isLoading, errorShown, csvText, activityData,
                 heatmapData, heatmapYear, rawDaily, cardsData, chartsCards, tableCards,
                 activeCards>>

ParseNext == ParseActivityLog

SpecParse == ParseInit /\ [][ParseNext]_vars

----------------------------------------------------------------------------
(* data-parser.js: level distribution and deck performance.  The levels of *)
(* the records are those of the export or an unrecognized text, never the  *)
(* name of a member of Object.prototype.                                   *)

\* the property key a value is used as: String(value)
KeyOf(x) == IF x.t = "str" THEN x.v ELSE x.t

\* counts[level] = (counts[level] || 0) + 1
CountLevel(counts, level) ==
  LET key == KeyOf(level)
  IN SpreadMerge(counts, [k \in {key} |->
       IF Truthy(Get(counts, key)) THEN JNum(counts[key].v + 1) ELSE JNum(1)])

\* the forEach of getLevelDistribution leaving out the cards with no level
RECURSIVE DistributionLoopSkipsUnknown(_, _, _)
DistributionLoopSkipsUnknown(cards, i, distribution) ==
  IF i > Len(cards) THEN distribution
  ELSE DistributionLoopSkipsUnknown(cards, i + 1,
         IF \E k \in {"ankiLevel", "anki_level", "level", "Level"} :
              Truthy(Get(ObjView(cards[i]), k))
         THEN CountLevel(distribution, LevelOf(cards[i])) ELSE distribution)

\* the forEach of getLevelDistribution from card i on
RECURSIVE DistributionLoop(_, _, _)
DistributionLoop(cards, i, distribution) ==
  IF i > Len(cards) THEN distribution
  ELSE DistributionLoop(cards, i + 1, CountLevel(distribution, LevelOf(cards[i])))

\* DataParser.getLevelDistribution(cards)
getLevelDistribution(cards) ==
  IF ~Truthy(cards) THEN JObj(EmptyFields)
  ELSE JObj(DistributionLoop(cards.v, 1, EmptyFields))

\* the position of the deckData property key, 0 when there is none; deckData
\* is the sequence of its properties in the order they were created
DeckIndex(deckData, key) ==
  IF \E i \in 1..Len(deckData) : deckData[i].key = key
  THEN CHOOSE i \in 1..Len(deckData) : deckData[i].key = key
  ELSE 0

\* the body of the forEach of getDeckPerformance for one card
AddToDeck(deckData, card) ==
  LET deckName == DeckOf(card)
      key == KeyOf(deckName)
      known == IF DeckIndex(deckData, key) = 0
               THEN Append(deckData, [key |-> key, name |-> deckName, total |-> 0,
                                      levels |-> EmptyFields])
               ELSE deckData
      at == DeckIndex(known, key)
  IN [known EXCEPT ![at] = [@ EXCEPT !.total = @ + 1,
                                     !.levels = CountLevel(@, LevelOf(card))]]

RECURSIVE DeckLoop(_, _, _)
DeckLoop(cards, i, deckData) ==
  IF i > Len(cards) THEN deckData
  ELSE DeckLoop(cards, i + 1, AddToDeck(deckData, cards[i]))

\* the keys that are array indexes: Object.values lists these first, in
\* ascending numeric order, before the other keys in creation order
IntegerKeys == { ToString(n) : n \in 0..9 }

IndexOfKey(key) == CHOOSE n \in 0..9 : ToString(n) = key

\* TRUE iff Object.values lists the property a before the property b, a
\* being the one created first
ListedBefore(a, b) ==
  IF a.key \in IntegerKeys /\ b.key \in IntegerKeys
  THEN IndexOfKey(a.key) < IndexOfKey(b.key)
  ELSE b.key \notin IntegerKeys

\* Object.values(deckData)
ObjectValues(deckData) ==
  LET n == Len(deckData)
      rank(i) == Cardinality({ j \in 1..n : j # i /\
                   IF j < i THEN ListedBefore(deckData[j], deckData[i])
                   ELSE ~ListedBefore(deckData[i], deckData[j]) })
  IN [p \in 1..n |-> deckData[CHOOSE i \in 1..n : rank(i) = p - 1]]

\* values.sort((a, b) => b.total - a.total): the sort is stable
SortByTotal(values) ==
  LET n == Len(values)
      rank(i) == Cardinality({ j \in 1..n :
                   \/ values[j].total > values[i].total
                   \/ values[j].total = values[i].total /\ j < i })
  IN [p \in 1..n |-> values[CHOOSE i \in 1..n : rank(i) = p - 1]]

\* one element of the array getDeckPerformance returns
DeckEntry(d) ==
  JObj(Fields({<<"name", d.name>>, <<"total", JNum(d.total)>>,
               <<"levels", JObj(d.levels)>>}))

\* DataParser.getDeckPerformance(cards)
getDeckPerformance(cards) ==
  IF ~Truthy(cards) THEN JArr(<<>>)
  ELSE LET sorted == SortByTotal(ObjectValues(DeckLoop(cards.v, 1, <<>>)))
       IN JArr([p \in 1..Len(sorted) |-> DeckEntry(sorted[p])])

----------------------------------------------------------------------------
(* The parser's functions as functions of their arguments *)

\* a fresh DataParser and the argument of the call under study
FnInit(inputs) ==
  /\ input \in inputs
  /\ output = JUndef
  /\ frames = <<>>
  /\ storage = [k \in StorageKeys |-> Absent]
  /\ storageFull = FALSE
  /\ inlineState = JUndef
  /\ subscribers = NoListeners
  /\ state = JUndef
  /\ listeners = NoListeners
  /\ log = <<>>
  /\ threw = FALSE
  /\ lastOp = Op("constructor", JBool(FALSE))
  /\ ops = 0
  /\ AppConstructed

\* the call name(input) returns value
FnApply(name, value) ==
  /\ output = JUndef
  /\ output' = value
  /\ lastOp' = Op(name, JUndef)
  /\ UNCHANGED <<input, frames, state, listeners, inlineState, subscribers, storage,
                 storageFull, log, threw, ops, appVars>>

\* the activity indexes parseActivityLog makes of the raw mappings over dates
\* whose days come from days
IndexesOver(dates, days) ==
  { parseActivityLog(JObj(f), JNull).value :
      f \in UNION { [ds -> days] : ds \in SUBSET dates } }

SummaryDates == {"2024-05-26", "2024-05-27", "2024-06-01", "2024-06-02"}

\* one new study, or the same note studied twice next to a review
SummaryDays == { Day(<<>>, <<Event("n1")>>),
                 Day(<<Event("n1")>>, <<Event("n1"), Event("n1")>>) }

\* a Monday morning, a Saturday afternoon and the Sunday midnight after it
SummaryClocks == { JInstant(MkDate(2024, 4, 27), 9), JInstant(MkDate(2024, 5, 1), 14),
                   JInstant(MkDate(2024, 5, 2), 0) }

SummaryCard ==
  JObj(Fields({<<"noteId", JStr("n1")>>,
               <<"lastReviewDate", JInstant(MkDate(2024, 5, 1), 10)>>}))

SummaryInputs ==
  [cards : {JNull, JArr(<<>>), JArr(<<SummaryCard>>)},
   hist : {JNull} \cup IndexesOver(SummaryDates, SummaryDays),
   now : SummaryClocks]

SummaryInit == FnInit(SummaryInputs)

GetSummaryStats ==
  FnApply("getSummaryStats", getSummaryStats(input.cards, input.hist, input.now))

SummaryNext == GetSummaryStats

SpecSummary == SummaryInit /\ [][SummaryNext]_vars

----------------------------------------------------------------------------
\* four cards: reviewed in the afternoon of June 1; reviewed at midnight of
\* June 1; never studied, with raw field names only; studied but not reviewed
FilterCardList ==
  << JObj(Fields({<<"noteId", JStr("n1")>>, <<"deckName", JStr("A")>>,
                  <<"ankiLevel", JStr("Mature")>>,
                  <<"finnish", JChars(<<"K", "a", "l", "a">>)>>,
                  <<"translation", JChars(<<"f">>)>>,
                  <<"firstStudyDate", JInstant(MkDate(2024, 4, 20), 0)>>,
                  <<"lastReviewDate", JInstant(MkDate(2024, 5, 1), 14)>>})),
     JObj(Fields({<<"noteId", JStr("n2")>>, <<"deckName", JStr("B")>>,
                  <<"ankiLevel", JStr("Mature")>>,
                  <<"finnish", JChars(<<"a", " ", "b">>)>>,
                  <<"translation", JChars(<<>>)>>,
                  <<"firstStudyDate", JNull>>,
                  <<"lastReviewDate", JInstant(MkDate(2024, 5, 1), 0)>>})),
     JObj(Fields({<<"note_id", JStr("n3")>>, <<"deck_name", JStr("A")>>,
                  <<"translation", JChars(<<"K", "A", "L", "A">>)>>,
                  <<"firstStudyDate", JNull>>, <<"lastReviewDate", JNull>>})),
     JObj(Fields({<<"noteId", JStr("n4")>>, <<"deckName", JStr("A")>>,
                  <<"anki_level", JStr("Young")>>,
                  <<"finnish", JChars(<<"l", "a">>)>>,
                  <<"translation", JChars(<<>>)>>,
                  <<"firstStudyDate", JInstant(MkDate(2024, 4, 31), 23)>>,
                  <<"lastReviewDate", JNull>>})) >>

FilterCardInputs ==
  { JNull, JArr(<<>>), JArr(FilterCardList),
    JArr(<<FilterCardList[2], FilterCardList[1]>>) }

\* the searches typed into the search box
SearchQueries == { <<>>, <<" ">>, <<"k", "a">>, <<"L", "A">> }

\* no range, a clicked heatmap cell, a lower bound only, an upper bound only
DateRanges ==
  { JObj(Fields({<<"start", JNull>>, <<"end", JNull>>})),
    JObj(Fields({<<"start", JStr("2024-06-01")>>, <<"end", JStr("2024-06-01")>>})),
    JObj(Fields({<<"start", JStr("2024-05-31")>>, <<"end", JNull>>})),
    JObj(Fields({<<"start", JNull>>, <<"end", JStr("2024-05-31")>>})) }

StatFilters ==
  {JNull} \cup { StatFilter(type) : type \in {"newWordsToday", "newWordsThisWeek",
                                             "studiedToday", "totalCards"} }

FilterSpecs ==
  {JObj(EmptyFields)} \cup
  { JObj(Fields({<<"selectedDecks", JArr(decks)>>, <<"selectedLevels", JArr(levels)>>,
                 <<"searchQuery", JChars(query)>>, <<"dateRange", range>>,
                 <<"statFilter", stat>>})) :
      decks \in {<<>>, <<JStr("A")>>}, levels \in {<<>>, <<JStr("Mature")>>},
      query \in SearchQueries, range \in DateRanges, stat \in StatFilters }

\* no index, n1 first studied today, n4 first studied on the Monday before
FilterIndexes ==
  { JNull,
    parseActivityLog(JObj(Fields({<<"2024-06-01", Day(<<>>, <<Event("n1")>>)>>})),
                     JNull).value,
    parseActivityLog(JObj(Fields({<<"2024-05-27", Day(<<>>, <<Event("n4")>>)>>})),
                     JNull).value }

FilterInputs ==
  [cards : FilterCardInputs, filters : FilterSpecs, hist : FilterIndexes,
   now : {JInstant(MkDate(2024, 5, 1), 14)}]

FilterInit == FnInit(FilterInputs)

FilterCards ==
  FnApply("filterCards", filterCards(input.cards, input.filters, input.hist, input.now))

FilterNext == FilterCards

SpecFilter == FilterInit /\ [][FilterNext]_vars

\* header lines of the CSV texts: the level column under its spellings
CsvHeaders ==
  { <<"note_id", ",", "anki_level", ",", "last_review_date">>,
    <<"note_id", ",", "level", ",", " ", "last_review_date">>,
    <<"anki_level", ",", "Level", ",", "last_review_date">>,
    <<"\"", "note_id", "\"", ",", "ankiLevel", ",", "last_review_date">> }

\* data lines: three fields, fewer, more, quoted commas and quotes, blank
CsvLines ==
  { <<"n1", ",", "Mature", ",", "2024-05-01">>,
    <<"n2", ",", ",", "2024-05-31">>,
    <<"n3", ",", "Young">>,
    <<"\"", "a", ",", "b", "\"", ",", "Learning", ",", "2024-05-30">>,
    <<"n5", ",", " ", "New", " ", ",", "x", ",", "y">>,
    <<>>,
    <<"\"", "say", " ", "\"", "\"", "hi", "\"", "\"", "\"", ",", "Young", ",",
      "2024-05-20">>,
    <<",", "Relearning", ",", "2024-05-29">> }

\* the lines joined by line feeds
RECURSIVE JoinLines(_)
JoinLines(lines) ==
  IF Len(lines) = 1 THEN lines[1]
  ELSE lines[1] \o <<"\n">> \o JoinLines(Tail(lines))

\* the texts parseCSV is given: a header and up to three data lines, with or
\* without the line feed that ends a file
CsvTexts ==
  { JoinLines(<<h>> \o rows) \o tail :
      h \in CsvHeaders,
      rows \in UNION { [1..n -> CsvLines] : n \in 0..3 },
      tail \in {<<>>, <<"\n">>} }

CsvInputs == [text : CsvTexts, now : {JInstant(MkDate(2024, 5, 1), 14)}]

CsvInit == FnInit(CsvInputs)

ParseCSV == FnApply("parseCSV", parseCSV(input.text, input.now))

CsvNext == ParseCSV

SpecCsv == CsvInit /\ [][CsvNext]_vars

\* the columns a row can carry its level in, and none
LevelColumns == {"anki_level", "ankiLevel", "level", "Level"}

\* level texts: the known levels, levels overdue does not know, empty
LevelTexts ==
  {"New", "Learning", "Young", "Mature", "Relearning", "Suspended", "Unknown",
   "Buried", ""}

\* last_review_date texts: empty, no date, and 0, 1, 2, 7, 8, 21, 22 and 31
\* days before the clock of the inputs
ReviewTexts ==
  {"", "soon", "2024-06-01", "2024-05-31", "2024-05-30", "2024-05-25", "2024-05-24",
   "2024-05-11", "2024-05-10", "2024-05-01"}

\* the level columns of a row: none, one under any spelling, an empty primary
\* column beside an alternate, and two alternates
LevelFields ==
  {EmptyFields}
  \cup { [k \in {c} |-> JStr(text)] : c \in LevelColumns, text \in LevelTexts }
  \cup { SpreadMerge([k \in {"anki_level"} |-> JStr("")], [k \in {c} |-> JStr(text)]) :
           c \in LevelColumns \ {"anki_level"}, text \in {"Mature", "Learning", ""} }
  \cup { SpreadMerge([k \in {"ankiLevel"} |-> JStr("")], [k \in {"Level"} |-> JStr("Young")]),
         SpreadMerge([k \in {"level"} |-> JStr("Young")], [k \in {"Level"} |-> JStr("Mature")]) }

\* rows as parseCSV hands them to processCard: a note id, the level columns
\* and the last review date, or no date column at all
CardRows ==
  { SpreadMerge(SpreadMerge([k \in {"note_id"} |-> JStr("n1")], levels), review) :
      levels \in LevelFields,
      review \in {EmptyFields}
                 \cup { [k \in {"last_review_date"} |-> JStr(text)] : text \in ReviewTexts } }

CardInputs == [card : CardRows, now : {JInstant(MkDate(2024, 5, 1), 14)}]

CardInit == FnInit(CardInputs)

ProcessCard == FnApply("processCard", processCard(input.card, input.now))

ProcessCardOfJs == FnApply("processCardOfJs", processCardOfJs(input.card, input.now))

CardNext == ProcessCard \/ ProcessCardOfJs

SpecCard == CardInit /\ [][CardNext]_vars

\* records for the aggregates: decks under either field name, with names
\* that are array indexes, and levels under either name or missing
AggregateCards ==
  { JObj(Fields({<<"deckName", JStr("A")>>, <<"ankiLevel", JStr("Mature")>>})),
    JObj(Fields({<<"deckName", JStr("A")>>, <<"ankiLevel", JStr("Young")>>})),
    JObj(Fields({<<"deck_name", JStr("B")>>, <<"anki_level", JStr("Young")>>})),
    JObj(Fields({<<"deckName", JStr("2")>>, <<"ankiLevel", JStr("Unknown")>>})),
    JObj(Fields({<<"deckName", JStr("1")>>, <<"level", JStr("")>>})),
    JObj(Fields({<<"deckName", JStr("C")>>})) }

\* the record sequences handed to the aggregates
AggregateLength == 4

AggregateInputs ==
  {JNull} \cup { JArr(cards) :
                   cards \in UNION { [1..n -> AggregateCards] : n \in 0..AggregateLength } }

AggregateInit == FnInit(AggregateInputs)

GetLevelDistribution == FnApply("getLevelDistribution", getLevelDistribution(input))

GetDeckPerformance == FnApply("getDeckPerformance", getDeckPerformance(input))

AggregateNext == GetLevelDistribution \/ GetDeckPerformance

SpecAggregate == AggregateInit /\ [][AggregateNext]_vars

\* a common year, a leap year, and the century years 2000 and 2100
CalendarYears == {2023, 2024, 2000, 2100}

\* the first and the last day of a year, a leap day, and the eve of a year
CalendarDates == {"2024-01-01", "2024-02-29", "2023-12-31"}

\* hours the local zone is ahead of UTC: New York, UTC, Helsinki
ZoneOffsets == {-5, 0, 2}

CalendarInputs ==
  [year : CalendarYears,
   hist : IndexesOver(CalendarDates, {Day(<<Event("n1")>>, <<Event("n2")>>)}),
   zone : ZoneOffsets]

CalendarInit == FnInit(CalendarInputs)

GetHeatmapData == FnApply("getHeatmapData", getHeatmapData(input.year, input.hist))

GetHeatmapDataOfJs ==
  FnApply("getHeatmapDataOfJs", getHeatmapDataOfJs(input.year, input.hist, input.zone))

CalendarNext == GetHeatmapData \/ GetHeatmapDataOfJs

SpecCalendar == CalendarInit /\ [][CalendarNext]_vars

\* the windows the timeline chart offers
Timeframes == {"week", "month", "year"}

\* a day in the middle of a month, the last day of March, a leap day
TimelineClocks == { JInstant(MkDate(2024, 5, 12), 14), JInstant(MkDate(2024, 2, 31), 9),
                    JInstant(MkDate(2024, 1, 29), 0) }

\* days around the first clock: the day itself, the day before, a week before
TimelineDates == {"2024-06-12", "2024-06-11", "2024-06-05"}

TimelineInputs ==
  [timeframe : Timeframes,
   hist : IndexesOver(TimelineDates, {Day(<<Event("n1")>>, <<>>),
                                      Day(<<Event("n1")>>, <<Event("n2"), Event("n3")>>)}),
   now : TimelineClocks]

TimelineInit == FnInit(TimelineInputs)

GetTimelineData ==
  FnApply("getTimelineData", getTimelineData(input.timeframe, input.hist, input.now))

TimelineNext == GetTimelineData

SpecTimeline == TimelineInit /\ [][TimelineNext]_vars

----------------------------------------------------------------------------
(* Claims about the store *)

\* the callbacks a log records, in call order
Calls(l) == SelectSeq(l, LAMBDA e : e.op = "callback")
Writes(l) == SelectSeq(l, LAMBDA e : e.op = "setItem")

EmptyDateRange == JObj(Fields({<<"start", JNull>>, <<"end", JNull>>}))

\* a filter object all of whose fields are empty
FiltersCleared(filters) ==
  /\ getPath(filters, <<"selectedDecks">>) = JArr(<<>>)
  /\ getPath(filters, <<"selectedLevels">>) = JArr(<<>>)
  /\ getPath(filters, <<"searchQuery">>) = JStr("")
  /\ getPath(filters, <<"dateRange">>) = EmptyDateRange
  /\ getPath(filters, <<"statFilter">>) \in {JNull, JUndef}

\* C1: a step of clearFilters leaves every filter field (selectedDecks,
\* selectedLevels, searchQuery, dateRange, statFilter) empty or null and does
\* not change theme, language, chartStates or tableStates.
C1_ClearFiltersResetsAll ==
  [][(ops' = ops + 1 /\ lastOp'.name = "clearFilters")
       => /\ FiltersCleared(getPath(state', <<"filters">>))
          /\ \A k \in {"theme", "language", "chartStates", "tableStates"} :
               getPath(state', <<k>>) = getPath(state, <<k>>)]_vars

\* C2: while storage accepts writes, every callback call of a mutation comes
\* after a successful setItem of that mutation.
C2_PersistBeforeNotify ==
  ~storageFull =>
    \A i \in 1..Len(log) :
      log[i].op = "callback" => \E j \in 1..(i - 1) : log[j].op = "setItem" /\ log[j].ok

\* the operations that go through update (setState in state.js) and the
\* change category each one notifies
UpdateCategory ==
  Fields({<<"updateFilters", "filterChange">>,
          <<"toggleDeckFilter", "filterChange">>,
          <<"toggleLevelFilter", "filterChange">>,
          <<"clearFilters", "filterChange">>,
          <<"updateChartState", "chartStateChange">>,
          <<"updateTableState", "tableStateChange">>,
          <<"updateUIState", "uiStateChange">>,
          <<"toggleTheme", "themeChange">>,
          <<"setLanguage", "languageChange">>})

\* C3: an update that leaves the state as it was writes nothing and calls no
\* subscriber (so the second of two equal updateFilters calls does neither).
C3_NoOpUpdateIsSilent ==
  [][(ops' = ops + 1 /\ lastOp'.name \in DOMAIN UpdateCategory /\ ~threw'
      /\ inlineState' = inlineState)
       => log' = <<>>]_vars

\* C4: an update of category C that changes the state calls, once per
\* registration and in order, the subscribers of C and then those of
\* 'stateChange', and nobody else; each call receives the previous state, the
\* new state and the updates.
C4_NotifiesCategoryAndGeneric ==
  [][(ops' = ops + 1 /\ lastOp'.name \in DOMAIN UpdateCategory /\ ~threw'
      /\ inlineState' # inlineState)
       => LET C == UpdateCategory[lastOp'.name]
              expected == subscribers[C]
                          \o (IF C # "stateChange" THEN subscribers["stateChange"]
                              ELSE <<>>)
              calls == Calls(log')
          IN /\ Len(calls) = Len(expected)
             /\ \A i \in 1..Len(calls) :
                  /\ calls[i].cb = expected[i]
                  /\ calls[i].data.newState = inlineState'
                  /\ calls[i].data.previousState = inlineState
                  /\ calls[i].data.updates # JUndef]_vars

\* C5: with storage accepting writes, a store constructed from storage has
\* the state the previous store had in memory.
C5_ReloadRestoresState ==
  [][(ops' = ops + 1 /\ lastOp'.name = "constructor" /\ InlineAlive /\ ~threw'
      /\ ~storageFull)
       => inlineState' = inlineState]_vars

\* C6: when the stored blob is not JSON, or reading storage throws, the
\* constructor does not throw and the state is the default state.
C6_CorruptBlobFallsBackToDefault ==
  (lastOp.name = "constructor"
   /\ (lastOp.arg = JBool(TRUE) \/ ParseThrows(storage[storageKey])))
    => (~threw /\ state = defaultState)

\* the constructor ran on a blob that is not JSON, while writes were failing,
\* so the garbage survived an update made in between
C6_Witness ==
  /\ lastOp = Op("constructor", JBool(FALSE))
  /\ ParseThrows(storage[storageKey])
  /\ ops > 1
  /\ ~threw
  /\ state = defaultState

\* C7: an update during which setItem throws does not throw itself.
C7_WriteFailureSwallowed ==
  (lastOp.name \in DOMAIN UpdateCategory /\ \E i \in 1..Len(log) :
                                              log[i].op = "setItem" /\ ~log[i].ok)
    => ~threw

----------------------------------------------------------------------------
(* Claims about the activity index and the heatmap *)

\* the day of the index hist for the raw entry raw carries the raw lists
DayMatchesRaw(day, raw) ==
  LET reviews == Or(Get(ObjView(raw), "reviews"), JArr(<<>>))
      newStudies == Or(Get(ObjView(raw), "new_studies"), JArr(<<>>))
  IN /\ getPath(day, <<"reviews">>) = reviews
     /\ getPath(day, <<"newStudies">>) = newStudies
     /\ getPath(day, <<"totalActivity">>) = JNum(Len(reviews.v) + Len(newStudies.v))

\* C8: once a run has loaded the activity log and initialized the charts, the
\* parser's index holds for every date of the raw mapping the raw reviews, the
\* raw new_studies as newStudies, and their summed count as totalActivity
C8_IndexKeepsRawEvents ==
  (appPhase = "idle" /\ ~errorShown /\ rawDaily # JUndef) =>
     \A date \in DOMAIN ObjView(rawDaily) :
        DayMatchesRaw(Get(ObjView(historyData), date), ObjView(rawDaily)[date])

\* C9: parseActivityLog never throws; an empty or missing mapping gives the
\* empty index, and a day without reviews or new_studies gets an empty list
C9_ParseActivityLogIsTotal ==
  output # JUndef =>
     /\ ~output.threw
     /\ input \in {JNull, JUndef, JObj(EmptyFields)} => output.value = JObj(EmptyFields)
     /\ \A date \in DOMAIN ObjView(input) :
          DayMatchesRaw(Get(ObjView(output.value), date), ObjView(input)[date])

DaysInYear(y) == IF IsLeapYear(y) THEN 366 ELSE 365

\* C10: while no activity index has ever been normalized, the heatmap data the
\* chart was last given has one entry per day of its year, all with activity 0
\* and intensity 0
C10_NoHistoryGivesZeroYear ==
  (heatmapYear # 0 /\ historyData = JNull) =>
     /\ Len(heatmapData) = DaysInYear(heatmapYear)
     /\ \A i \in 1..Len(heatmapData) :
          heatmapData[i].activity = 0 /\ heatmapData[i].intensity = 0

----------------------------------------------------------------------------
(* Claims about the statistics, the filter and the CSV parser *)

\* the length of the newStudies list the index idx holds for date
NewStudiesOn(idx, date) ==
  LengthOrZero(getPath(Get(ObjView(idx), toLocalDateString(date)), <<"newStudies">>))

RECURSIVE SumNewStudies(_, _)
SumNewStudies(idx, dates) ==
  IF dates = {} THEN 0
  ELSE LET d == CHOOSE d \in dates : TRUE
       IN NewStudiesOn(idx, d) + SumNewStudies(idx, dates \ {d})

\* the local dates from the most recent Monday through today
WeekSoFar(today) ==
  LET monday == CHOOSE d \in {SetDate(today, today.d - k) : k \in 0..6} : getDay(d) = 1
  IN {d \in {AddDays(monday, k) : k \in 0..6} : DateLeq(d, today)}

\* C11: for every record set, the empty one included, newWordsToday is the
\* length of the index's newStudies list for the local today and
\* newWordsThisWeek the sum of those lengths from the most recent Monday
\* through today, repeated events counted each time
C11_NewCountsComeFromIndex ==
  (lastOp.name = "getSummaryStats" /\ input.cards # JNull) =>
     LET today == input.now.date
     IN /\ getPath(output, <<"newWordsToday">>) = JNum(NewStudiesOn(input.hist, today))
        /\ getPath(output, <<"newWordsThisWeek">>)
             = JNum(SumNewStudies(input.hist, WeekSoFar(today)))

\* the fields of the filter specification the call was given
SpecField(k) == Get(ObjView(input.filters), k)

ListOf(x) == IF Truthy(x) THEN SeqToSet(x.v) ELSE {}

QueryOf == CharsOrEmpty(SpecField("searchQuery"))

BoundOf(k) == getPath(SpecField("dateRange"), <<k>>)

\* lastReviewDate, or firstStudyDate when that is absent
CardDate(card) ==
  IF Get(ObjView(card), "lastReviewDate").t = "instant"
  THEN Get(ObjView(card), "lastReviewDate")
  ELSE Get(ObjView(card), "firstStudyDate")

DeckPasses(card) == ListOf(SpecField("selectedDecks")) = {} \/ DeckOf(card) \in ListOf(SpecField("selectedDecks"))

LevelPasses(card) ==
  ListOf(SpecField("selectedLevels")) = {} \/ LevelOf(card) \in ListOf(SpecField("selectedLevels"))

\* the query occurs, letter case aside, in the front or the back text
TextMatches(card) ==
  \/ includes(toLowerCase(CharsOrEmpty(Get(ObjView(card), "finnish"))), toLowerCase(QueryOf))
  \/ includes(toLowerCase(CharsOrEmpty(Get(ObjView(card), "translation"))),
              toLowerCase(QueryOf))

\* the card's date exists and lies between the bounds that are set, the
\* bounds being the instants the bound texts denote
RangePasses(card) ==
  (Truthy(BoundOf("start")) \/ Truthy(BoundOf("end"))) =>
     /\ CardDate(card).t = "instant"
     /\ Truthy(BoundOf("start")) =>
          HoursOf(DateOfText(BoundOf("start").v)) <= HoursOf(CardDate(card))
     /\ Truthy(BoundOf("end")) =>
          HoursOf(CardDate(card)) <= HoursOf(DateOfText(BoundOf("end").v))

\* the note ids of the new-study events the index holds for the dates
NewNotesOn(idx, dates) ==
  { Get(ObjView(e), "note_id") :
      e \in UNION { ListOf(getPath(Get(ObjView(idx), toLocalDateString(d)),
                                   <<"newStudies">>)) : d \in dates } }

NoteIdOf(card) == Or(Get(ObjView(card), "noteId"), Get(ObjView(card), "note_id"))

StatPasses(card) ==
  LET type == getPath(SpecField("statFilter"), <<"type">>)
      today == input.now.date
  IN CASE type = JStr("newWordsToday") -> NoteIdOf(card) \in NewNotesOn(input.hist, {today})
       [] type = JStr("newWordsThisWeek") ->
            NoteIdOf(card) \in NewNotesOn(input.hist, WeekSoFar(today))
       [] type = JStr("studiedToday") ->
            /\ Get(ObjView(card), "lastReviewDate").t = "instant"
            /\ Get(ObjView(card), "lastReviewDate").date = today
       [] OTHER -> TRUE

Filtered == lastOp.name = "filterCards" /\ input.cards # JNull

EmptySpec ==
  /\ ListOf(SpecField("selectedDecks")) = {}
  /\ ListOf(SpecField("selectedLevels")) = {}
  /\ QueryOf = <<>>
  /\ ~Truthy(BoundOf("start")) /\ ~Truthy(BoundOf("end"))
  /\ ~Truthy(SpecField("statFilter"))

\* C13: with an empty filter specification filterCards returns the input
\* records unchanged: the same records in the same order
C13_EmptySpecIsIdentity ==
  (Filtered /\ EmptySpec) => output = input.cards

\* the empty specification was applied to the four cards and returned them
C13_Witness ==
  /\ Filtered /\ EmptySpec
  /\ Len(input.cards.v) = 4
  /\ output = input.cards

\* C14: when a heatmap click has set start = end = day D and nothing else is
\* active, exactly the records whose date (lastReviewDate, else
\* firstStudyDate) falls on calendar day D are returned
C14_ClickedDayKeepsWholeDay ==
  (Filtered /\ Truthy(BoundOf("start")) /\ BoundOf("start") = BoundOf("end")
   /\ ListOf(SpecField("selectedDecks")) = {} /\ ListOf(SpecField("selectedLevels")) = {}
   /\ QueryOf = <<>> /\ ~Truthy(SpecField("statFilter")))
    => output = JArr(SelectSeq(input.cards.v, LAMBDA card :
                  /\ CardDate(card).t = "instant"
                  /\ CardDate(card).date = DateOfText(BoundOf("start").v).date))

\* the lines of the text parseCSV was given, the header first
TextLines == split(trim(input.text))

\* the numbers of the data lines, in order
DataLineNumbers == [i \in 1..(Len(TextLines) - 1) |-> i + 1]

\* TRUE iff line i has as many fields as the header
WellFormed(i) == Len(parseCSVLine(TextLines[i])) = Len(parseCSVLine(TextLines[1]))

\* the properties processCard sets itself, over a column of the same name
ComputedNames ==
  {"noteId", "ankiLevel", "deckName", "firstStudyDate", "lastReviewDate", "finnish",
   "translation", "fields", "daysSinceFirstStudy", "daysSinceLastReview",
   "deckHierarchy", "isOverdue", "studyStreak"}

\* C15: parseCSV returns, in input order, exactly one record per data line
\* whose field count equals the header's, carrying that line's fields under
\* the header's names (but for the properties processCard computes); every other data line is skipped with one warning
\* naming it, and the lines after it are still parsed.
C15_OneRecordPerWellFormedLine ==
  lastOp.name = "parseCSV" =>
    LET headers == parseCSVLine(TextLines[1])
        good == SelectSeq(DataLineNumbers, WellFormed)
        bad == SelectSeq(DataLineNumbers, LAMBDA i : ~WellFormed(i))
    IN /\ Len(output.data.v) = Len(good)
       /\ \A k \in 1..Len(good) : \A c \in 1..Len(headers) :
            headers[c] \notin ComputedNames =>
              Get(output.data.v[k].v, headers[c])
                = JStr(parseCSVLine(TextLines[good[k]])[c])
       /\ output.warned = bad

\* three data rows with a mismatch in the middle gave two records, one warning
C15_Witness ==
  /\ lastOp.name = "parseCSV"
  /\ Len(TextLines) = 4
  /\ output.warned = <<3>>
  /\ Len(output.data.v) = 2
  /\ Get(output.data.v[1].v, "note_id") = JStr("a,b")
  /\ Get(output.data.v[2].v, "note_id") = JStr("say \"hi\"")

\* the level columns of the row processCard was given, in the order of the
\* fallback chain
LevelChain ==
  <<Get(input.card, "anki_level"), Get(input.card, "ankiLevel"),
    Get(input.card, "level"), Get(input.card, "Level")>>

\* the first non-empty level of the chain, 'Unknown' when there is none
NormalizedLevel ==
  IF \E i \in 1..4 : Truthy(LevelChain[i])
  THEN LevelChain[CHOOSE i \in 1..4 :
                    Truthy(LevelChain[i]) /\ \A j \in 1..(i - 1) : ~Truthy(LevelChain[j])]
  ELSE JStr("Unknown")

\* C16: every record produced by normalization has a non-empty level string:
\* the first non-empty value among the primary level field and its alternate
\* spellings, or 'Unknown' when all are missing or empty.
C16_LevelIsNeverEmpty ==
  lastOp.name \in {"processCard", "processCardOfJs"} =>
    /\ output.v["ankiLevel"].t = "str"
    /\ output.v["ankiLevel"].v # ""
    /\ output.v["ankiLevel"] = NormalizedLevel

\* whole days from the record's last review to the clock exceed n
ReviewOlderThan(n) ==
  GreaterThan(DaysBetween(input.now, output.v["lastReviewDate"]), n)

\* C17: each record's isOverdue is a function of its normalized level (the
\* result of the level fallback chain) and its lastReviewDate: false when the
\* date is absent; for Learning and Relearning true iff the last review is
\* more than 1 whole day old, for Young iff more than 7, for Mature iff more
\* than 21; always false for every other level.
C17_OverdueFollowsNormalizedLevel ==
  lastOp.name = "processCard" =>
    output.v["isOverdue"] =
      JBool(/\ Truthy(output.v["lastReviewDate"])
            /\ CASE NormalizedLevel \in {JStr("Learning"), JStr("Relearning")} ->
                      ReviewOlderThan(1)
                 [] NormalizedLevel = JStr("Young") -> ReviewOlderThan(7)
                 [] NormalizedLevel = JStr("Mature") -> ReviewOlderThan(21)
                 [] OTHER -> FALSE)

\* the number of records handed to the aggregate
RecordCount == LengthOrZero(input)

\* the sum of the counts of the keys of a mapping
RECURSIVE SumCounts(_, _)
SumCounts(counts, keys) ==
  IF keys = {} THEN 0
  ELSE LET k == CHOOSE k \in keys : TRUE
       IN counts[k].v + SumCounts(counts, keys \ {k})

\* C18: for every record sequence, the empty one included, the counts of the
\* level distribution sum to the number of records, each record being counted
\* in exactly one bucket: its level, or 'Unknown' when it has none.
C18_DistributionCountsEveryRecord ==
  lastOp.name = "getLevelDistribution" =>
    /\ SumCounts(output.v, DOMAIN output.v) = RecordCount
    /\ \A level \in DOMAIN output.v :
         output.v[level].v
           = Cardinality({ i \in 1..RecordCount : LevelOf(input.v[i]) = JStr(level) })
    /\ \A i \in 1..RecordCount : LevelOf(input.v[i]).v \in DOMAIN output.v

\* four records, one with no level and one whose level is an empty text
C18_Witness ==
  /\ lastOp.name = "getLevelDistribution"
  /\ RecordCount = 4
  /\ \E i, j \in 1..4 : /\ DOMAIN input.v[i].v = {"deckName"}
                        /\ Get(input.v[j].v, "level") = JStr("")
  /\ output = JObj(Fields({<<"Unknown", JNum(2)>>, <<"Mature", JNum(1)>>,
                           <<"Young", JNum(1)>>}))

\* the position of the first record of the deck in the input
FirstOf(deckName) == CHOOSE i \in 1..RecordCount :
  DeckOf(input.v[i]) = deckName /\ \A j \in 1..(i - 1) : DeckOf(input.v[j]) # deckName

\* the name and the total of the p-th entry of the result
EntryName(p) == output.v[p].v["name"]

EntryTotal(p) == output.v[p].v["total"].v

\* C19: the deck performance has one entry per distinct deck name, the totals
\* sum to the number of records, the entries are ordered by total descending,
\* and entries of equal total keep the order in which their decks first
\* appear in the input.
C19_DecksByTotalThenFirstSeen ==
  lastOp.name = "getDeckPerformance" =>
    LET n == Len(output.v)
    IN /\ { EntryName(p) : p \in 1..n } = { DeckOf(input.v[i]) : i \in 1..RecordCount }
       /\ \A p, q \in 1..n : p # q => EntryName(p) # EntryName(q)
       /\ \A p \in 1..n :
            EntryTotal(p)
              = Cardinality({ i \in 1..RecordCount : DeckOf(input.v[i]) = EntryName(p) })
       /\ \A p, q \in 1..n : p < q =>
            \/ EntryTotal(p) > EntryTotal(q)
            \/ /\ EntryTotal(p) = EntryTotal(q)
               /\ FirstOf(EntryName(p)) < FirstOf(EntryName(q))

\* the totalActivity the index holds for the local date, 0 when it has none
TotalOn(idx, date) ==
  LET total == getPath(Get(ObjView(idx), toLocalDateString(date)), <<"totalActivity">>)
  IN IF total.t = "num" THEN total.v ELSE 0

\* C20: for every year and every loaded activity index the heatmap data has
\* exactly 365 entries (366 in a leap year), one for each calendar date from
\* Jan 1 to Dec 31 of that year in ascending order, none missing or repeated,
\* each carrying the index's totalActivity for that local date (0 when the
\* date is absent).
C20_OneEntryPerDayOfYear ==
  lastOp.name \in {"getHeatmapData", "getHeatmapDataOfJs"} =>
    /\ Len(output) = DaysInYear(input.year)
    /\ \A k \in 1..Len(output) :
         /\ output[k].date.y = input.year
         /\ DayNumber(output[k].date) = DayNumber(MkDate(input.year, 0, 1)) + k - 1
         /\ output[k].activity = TotalOn(input.hist, output[k].date)

----------------------------------------------------------------------------
(* Claims about the timeline, the load cycle and the toggles *)

\* C21: the timeline of the week window has exactly 7 buckets, one per
\* consecutive local day, and for every window the last bucket is the local
\* date of now.
C21_WeekHasSevenDaysEndingToday ==
  lastOp.name = "getTimelineData" =>
    LET labels == output.labels
    IN /\ labels # <<>> /\ labels[Len(labels)] = input.now.date
       /\ input.timeframe = "week" =>
            /\ Len(labels) = 7
            /\ \A i \in 1..(Len(labels) - 1) :
                 DayNumber(labels[i + 1]) = DayNumber(labels[i]) + 1

\* the events of the list the index holds on the 7 days from date on
RECURSIVE EventsFrom(_, _, _, _)
EventsFrom(hist, date, list, days) ==
  IF days = 0 THEN 0
  ELSE EventsOn(hist, date, list) + EventsFrom(hist, AddDays(date, 1), list, days - 1)

\* TRUE iff each bucket of the series counts the events of the list on the
\* days it covers: its date, or for the year window the week that begins
\* (after = TRUE) or ends (after = FALSE) with its date
SeriesCounts(series, list, after) ==
  \A i \in 1..Len(series) :
    LET date == output.labels[i]
    IN series[i] =
         IF input.timeframe # "year" THEN EventsOn(input.hist, date, list)
         ELSE IF after THEN EventsFrom(input.hist, date, list, 7)
         ELSE EventsFrom(input.hist, SetDate(date, date.d - 6), list, 7)

\* C27: each bucket's reviews and new-studies values equal the number of
\* review and new-study events the index holds on the local dates the bucket
\* covers (one date for week and month buckets, the 7 dates of the week for
\* year buckets), missing dates counting as zero, and the labels and both
\* series have the same length.
C27_BucketsCountTheirDates ==
  lastOp.name = "getTimelineData" =>
    /\ Len(output.datasets[1]) = Len(output.labels)
    /\ Len(output.datasets[2]) = Len(output.labels)
    /\ \E after \in BOOLEAN :
         /\ SeriesCounts(output.datasets[1], "reviews", after)
         /\ SeriesCounts(output.datasets[2], "newStudies", after)

\* the last fetch of the loop over the candidate paths fails
LastFetchFails(phase) ==
  /\ appPhase = phase
  /\ attempt = 3
  /\ lastOp'.name \in {"csvFetch", "activityFetch"}
  /\ lastOp'.arg.v # "ok"

\* C22: when the CSV cannot be fetched from any candidate path, init ends
\* with an error reported and no chart or table initialized; when only the
\* activity fetch fails, init completes normally with an empty activity index.
C22_InitWithoutCsvOrActivity ==
  [][ /\ (run = "init" /\ LastFetchFails("csv")) =>
           /\ appPhase' = "idle" /\ errorShown'
           /\ chartsCards' = JNull /\ tableCards' = JNull
      /\ (run = "init" /\ LastFetchFails("activity")) =>
           /\ appPhase' = "idle" /\ ~errorShown' /\ ~isLoading'
           /\ activityData' = JObj(EmptyFields)
           /\ historyData' = JObj(EmptyFields)
           /\ chartsCards' = cardsData /\ tableCards' = cardsData
           /\ cardsData.t = "arr" ]_vars

C22_InitCompletedWithoutActivity ==
  /\ run = "init" /\ appPhase = "idle" /\ ~errorShown
  /\ lastOp = Op("activityFetch", JStr("notOk"))
  /\ historyData = JObj(EmptyFields)
  /\ tableCards # JNull

\* the index a run holds once it has normalized the raw daily mapping raw of
\* its own activity fetch (undefined when it could use none)
IndexOf(raw) ==
  IF raw = JUndef THEN JObj(EmptyFields)
  ELSE parseActivityLog(parseActivityLog(raw, JNull).value, JNull).historyData

\* C23: when a refresh completes, the records and the activity index every
\* view uses derive only from that refresh's fetches: no record of the
\* previous export remains, and the index is empty when the refresh's
\* activity fetch failed, whatever the previous load had.
C23_RefreshReplacesEverything ==
  [][ (run = "refresh" /\ appPhase = "activity" /\ appPhase' = "idle") =>
        /\ cardsData' = parseCSV(csvText'.v, LoadClock).data
        /\ chartsCards' = cardsData'
        /\ tableCards' = cardsData'
        /\ historyData' = IndexOf(rawDaily')
        /\ lastOp'.arg.v # "ok" =>
             /\ rawDaily' = JUndef
             /\ activityData' = JObj(EmptyFields)
             /\ historyData' = JObj(EmptyFields) ]_vars

C23_RefreshCompletedWithoutActivity ==
  /\ run = "refresh" /\ appPhase = "idle" /\ ~errorShown
  /\ lastOp = Op("activityFetch", JStr("throws"))
  /\ historyData = JObj(EmptyFields)
  /\ tableCards = parseCSV(<<"note_id", ",", "deck_name", "\n", "1", ",", "A">>,
                            LoadClock).data

TheStore == IF state # JUndef THEN state ELSE inlineState

\* the values selected under filters[field], and TRUE iff none is there twice
Selected(st, field) == SeqToSet(getPath(st, <<"filters", field>>).v)

NoneTwice(st, field) ==
  LET seq == getPath(st, <<"filters", field>>).v
  IN Cardinality(SeqToSet(seq)) = Len(seq)

----------------------------------------------------------------------------
(* state.js and app.js: the page opens on a persisted blob *)

\* a property the blob does not have
Missing == [t |-> "missing"]

\* the object with the properties of pairs that are not missing
Present(pairs) == JObj(Fields({p \in pairs : p[2] # Missing}))

\* JSON trees localStorage may hold under the state key: written by an
\* earlier version of the page, by another page of the origin, or by hand
SavedFilters ==
  {Missing, JNull, JStr("x"), JArr(<<>>)}
  \cup { Present({<<"selectedDecks", decks>>, <<"selectedLevels", levels>>,
                  <<"dateRange", range>>}) :
         decks \in {Missing, JNull, JStr("A"), JArr(<<JStr("A")>>), JObj(EmptyFields)},
         levels \in {Missing, JNull, JArr(<<>>)},
         range \in {Missing, JNull,
                    JObj(Fields({<<"start", JStr("2024-06-01")>>}))} }

SavedBlobs ==
  {Json(JNull), Json(JStr("x")), Json(JArr(<<>>))}
  \cup {Json(Present({<<"theme", JStr("light")>>, <<"filters", f>>})) : f \in SavedFilters}

\* AnkiStatsApp.applySavedFilters() on the store st, every element of the
\* page being there: TRUE iff it throws.  Reading a property of null or
\* undefined throws; of a string or a number it gives undefined.
applySavedFiltersThrows(st) ==
  LET filters == getPath(st, <<"filters">>)
      chartStates == getPath(st, <<"chartStates">>)
      selectedDecks == Get(ObjView(filters), "selectedDecks")
      selectedLevels == Get(ObjView(filters), "selectedLevels")
  IN \/ filters.t \in {"null", "undefined"}
     \/ selectedDecks.t \in {"null", "undefined"}
     \/ selectedLevels.t \in {"null", "undefined"}
     \/ chartStates.t \in {"null", "undefined"}

RestoreInit ==
  /\ \E blob \in SavedBlobs :
       storage = [k \in StorageKeys |-> IF k = storageKey THEN blob ELSE Absent]
  /\ storageFull = FALSE
  /\ state = JUndef
  /\ listeners = NoListeners
  /\ log = <<>>
  /\ threw = FALSE
  /\ lastOp = Op("open", JUndef)
  /\ ops = 0
  /\ inlineState = JUndef
  /\ subscribers = NoListeners
  /\ AppConstructed
  /\ FnIdle

\* new StateManager(): this.state = this.loadState()
ConstructStateManager ==
  /\ lastOp.name = "open"
  /\ state' = loadState(storage, FALSE).value
  /\ threw' = loadState(storage, FALSE).threw
  /\ lastOp' = Op("constructor", JBool(FALSE))
  /\ UNCHANGED <<listeners, inlineState, subscribers, storage, storageFull, log, ops,
                 appVars, fnVars>>

\* init() reaches applySavedFilters()
ApplySavedFilters ==
  /\ lastOp.name = "constructor"
  /\ threw' = applySavedFiltersThrows(state)
  /\ lastOp' = Op("applySavedFilters", JUndef)
  /\ UNCHANGED <<state, listeners, inlineState, subscribers, storage, storageFull, log,
                 ops, appVars, fnVars>>

RestoreNext ==
  \/ ConstructStateManager
  \/ ApplySavedFilters

SpecRestore == RestoreInit /\ [][RestoreNext]_vars

----------------------------------------------------------------------------
(* app.js on the state.js store: the stat cards *)

\* clicks and reloads the model follows
MaxClicks == 4

\* the data-filter attributes of the clickable stat cards of index.html
StatCards == {"newWordsToday", "newWordsThisWeek", "totalCards", "studiedToday"}

\* updateStatCardVisualState(activeFilterType): the cards that carry the
\* class 'active' afterwards; null is the type of no card
updateStatCardVisualState(activeFilterType) ==
  {card \in StatCards : JStr(card) = activeFilterType}

StatInit ==
  /\ storage = [k \in StorageKeys |-> Absent]
  /\ state = loadState(storage, FALSE).value
  /\ threw = FALSE
  /\ listeners = NoListeners
  /\ log = <<>>
  /\ lastOp = Op("constructor", JBool(FALSE))
  /\ storageFull \in BOOLEAN
  /\ ops = 0
  /\ inlineState = JUndef
  /\ subscribers = NoListeners
  /\ AppConstructed
  /\ FnIdle

\* what a click, a clear or a reload leaves alone
StatStep(name, arg) ==
  /\ ops' = ops + 1
  /\ lastOp' = Op(name, arg)
  /\ UNCHANGED <<listeners, storageFull, inlineState, subscribers, fnVars>>
  /\ UNCHANGED <<appPhase, run, attempt, isLoading, errorShown, csvText, activityData,
                 historyData, heatmapData, heatmapYear, rawDaily, cardsData,
                 chartsCards, tableCards>>

\* the click handler of a stat card: AnkiStatsApp.toggleStatFilter(filterType)
ToggleStatFilter ==
  /\ ops < MaxClicks
  /\ \E filterType \in StatCards :
       LET currentStatFilter == getState(<<"filters", "statFilter">>)
       IN /\ IF /\ Truthy(currentStatFilter)
                /\ getPath(currentStatFilter, <<"type">>) = JStr(filterType)
             THEN /\ updateFilters(Fields({<<"statFilter", JNull>>}), storageFull)
                  /\ activeCards' = updateStatCardVisualState(JNull)
             ELSE /\ updateFilters(Fields({<<"statFilter", StatFilter(filterType)>>}),
                                   storageFull)
                  /\ activeCards' = updateStatCardVisualState(JStr(filterType))
          /\ StatStep("toggleStatFilter", JStr(filterType))

\* AnkiStatsApp.clearAllFilters()
ClearAllFilters ==
  /\ ops < MaxClicks
  /\ clearFilters(storageFull)
  /\ activeCards' = updateStatCardVisualState(JNull)
  /\ StatStep("clearAllFilters", JNull)

\* the page is loaded again: a new document, whose cards carry no 'active'
\* class, and a new StateManager; applySavedFilters sets the selects and the
\* search box and does not look at statFilter
PageReloads ==
  /\ ops < MaxClicks
  /\ state' = loadState(storage, FALSE).value
  /\ threw' = FALSE
  /\ log' = <<>>
  /\ activeCards' = {}
  /\ UNCHANGED storage
  /\ StatStep("reload", JNull)

StatNext ==
  \/ ToggleStatFilter
  \/ ClearAllFilters
  \/ PageReloads

SpecStatCards == StatInit /\ [][StatNext]_vars

----------------------------------------------------------------------------
(* Claims about notifications *)

\* C25: no update starts its merge, write or notifications while another
\* update is still notifying: the subscribers an update has not yet called
\* are called before an update made by a callback is applied, so every
\* notification still to deliver carries the store's current state as its
\* newState.
C25_UpdatesRunOneAtATime ==
  /\ Len(frames) <= 1
  /\ \A i \in 1..Len(frames) : \A j \in 1..Len(frames[i]) :
       frames[i][j].data.newState = state

\* C26: whatever JSON the persisted blob holds, the loaded state has an
\* object under filters and under filters.dateRange and arrays under
\* filters.selectedDecks and filters.selectedLevels, as the default state
\* has, and applySavedFilters does not throw on it.
C26_LoadedStateHasDefaultShape ==
  /\ lastOp.name \in {"constructor", "applySavedFilters"} =>
       /\ getState(<<"filters">>).t = "obj"
       /\ getState(<<"filters", "selectedDecks">>).t = "arr"
       /\ getState(<<"filters", "selectedLevels">>).t = "arr"
       /\ getState(<<"filters", "dateRange">>).t = "obj"
  /\ lastOp.name = "applySavedFilters" => ~threw

\* C28: after any clicks on stat cards, clear-filter actions and reloads at
\* most one stat card is displayed active, and it is the card whose type is
\* filters.statFilter.type; no card is active exactly when statFilter is
\* null or missing.
C28_ActiveCardIsTheStatFilter ==
  LET statFilter == getState(<<"filters", "statFilter">>)
  IN /\ Cardinality(activeCards) <= 1
     /\ activeCards = IF Truthy(statFilter)
                      THEN {card \in StatCards :
                              JStr(card) = getPath(statFilter, <<"type">>)}
                      ELSE {}

\* the calls an update of the filters made, in the order it made them: those
\* of the 'filterChange' subscribers and of the generic subscribers it told
\* about a filterChange
FilterCalls(entries) ==
  SelectSeq(entries, LAMBDA e :
    /\ e.op = "callback"
    /\ \/ e.registeredFor = "filterChange"
       \/ e.registeredFor = "stateChange" /\ e.data.eventType = JStr("filterChange"))

\* TRUE iff the update of the filters that was begun last has ended, and a
\* callback it called threw
UpdateEndedAfterThrow ==
  /\ frames = <<>>
  /\ \E i \in 1..Len(log) : log[i].op = "callback" /\ log[i].cbThrew

\* C29: a subscriber callback that throws does not keep the subscribers after
\* it, of the same category or generic, from being called, does not make the
\* update throw, and does not undo the update in memory or in storage.
C29_ThrowingSubscriberIsIsolated ==
  UpdateEndedAfterThrow =>
    LET calls == FilterCalls(log)
        expected == listeners["filterChange"] \o listeners["stateChange"]
    IN /\ Len(calls) = Len(expected)
       /\ \A i \in 1..Len(calls) : calls[i].cb = expected[i]
       /\ ~threw
       /\ \A i \in 1..Len(calls) :
            getState(<<"filters">>) = getPath(calls[i].data.newState, <<"filters">>)
       /\ ~storageFull => storage[storageKey] = Json(Stringify(state))

C29_CalledAfterTheThrow ==
  /\ UpdateEndedAfterThrow
  /\ ~storageFull
  /\ \E i \in 1..Len(log) : \E j \in (i + 1)..Len(log) :
       /\ log[i].op = "callback" /\ log[i].cbThrew
       /\ log[j].op = "callback" /\ log[j].registeredFor = "filterChange"
  /\ \E i \in 1..Len(log) :
       log[i].op = "callback" /\ log[i].registeredFor = "stateChange"

====
